---- MODULE Spec2Model ----
(***************************************************************************)
(* A model of the three-phase UML grading pipeline                         *)
(* (Himlamtech/Software-Auto-Soring, src/ai/app).                          *)
(*                                                                         *)
(* Python floats are modelled as exact rationals [n, d] in lowest terms;   *)
(* round(x, 2) is modelled as rounding to hundredths, ties to even.        *)
(* Strings are sequences of character codes (see the character table).     *)
(***************************************************************************)
EXTENDS Integers, Sequences, FiniteSets, TLC

(***************************************************************************)
(* Bounds of the model                                                     *)
(***************************************************************************)
\* largest tp, fp, fn count enumerated for the metric formulas
MaxCount == 4
\* largest number of keys in the expected and in the actual set of a matching
MaxSet == 3
\* largest number of matched items of a category handed to the score formulas
MaxScoreCount == 3
\* largest number of extra items of such a category
MaxScoreExtra == 1
\* largest number of missing items of such a category
MaxScoreMiss == 2
\* largest number of statements of a teacher's diagram text
MaxStatements == 2
\* largest number of statements of a student's text that is not the teacher's
MaxStudentStatements == 1

(***************************************************************************)
(* Exact rational arithmetic (the model of Python float arithmetic)        *)
(***************************************************************************)
\* The operators of this section, Gcd apart, hand their arguments to a
\* function, so that an argument is evaluated once however often the body
\* refers to it.
Fractions == [n : Int, d : Int]

RECURSIVE Gcd(_, _)
Gcd(a, b) == IF b = 0 THEN a ELSE Gcd(b, a % b)

Abs(x) == IF x < 0 THEN -x ELSE x

ROf[p \in Int \X Int] ==
    LET n == p[1]
        d == p[2]
        g == Gcd(Abs(n), Abs(d))
        s == IF d < 0 THEN -1 ELSE 1
    IN  [n |-> s * (n \div g), d |-> s * (d \div g)]

R(n, d) == ROf[<<n, d>>]

Zero == [n |-> 0, d |-> 1]

One == [n |-> 1, d |-> 1]

Lcm(a, b) == (a \div Gcd(a, b)) * b

RAddOf[p \in Fractions \X Fractions] ==
    LET a == p[1]
        b == p[2]
        l == Lcm(a.d, b.d)
    IN  R(a.n * (l \div a.d) + b.n * (l \div b.d), l)

RAdd(a, b) == RAddOf[<<a, b>>]

RNeg(a) == [n |-> -a.n, d |-> a.d]

RSub(a, b) == RAdd(a, RNeg(b))

RMulOf[p \in Fractions \X Fractions] ==
    LET a == p[1]
        b == p[2]
        g1 == Gcd(Abs(a.n), b.d)
        g2 == Gcd(Abs(b.n), a.d)
    IN  IF a.n = 0 \/ b.n = 0 THEN Zero
        ELSE R((a.n \div g1) * (b.n \div g2), (a.d \div g2) * (b.d \div g1))

RMul(a, b) == RMulOf[<<a, b>>]

\* a / b for b # 0
RDiv(a, b) == RMul(a, R(b.d, b.n))

RLeOf[p \in Fractions \X Fractions] ==
    LET a == p[1]
        b == p[2]
        l == Lcm(a.d, b.d)
    IN  a.n * (l \div a.d) <= b.n * (l \div b.d)

RLe(a, b) == RLeOf[<<a, b>>]

RLtOf[p \in Fractions \X Fractions] == RLe(p[1], p[2]) /\ p[1] # p[2]

RLt(a, b) == RLtOf[<<a, b>>]

RMin(a, b) == IF RLe(a, b) THEN a ELSE b

RMax(a, b) == IF RLe(a, b) THEN b ELSE a

\* floor of a rational (TLA+ \div rounds towards minus infinity)
Floor(a) == a.n \div a.d

\* Python round(x, 2): the nearest hundredth, an exact tie going to the even one
Round2Of[a \in Fractions] ==
    LET h == RMul(a, R(100, 1))
        f == Floor(h)
        frac == RSub(h, R(f, 1))
        half == R(1, 2)
        k == IF RLt(frac, half) THEN f
             ELSE IF RLt(half, frac) THEN f + 1
             ELSE IF f % 2 = 0 THEN f ELSE f + 1
    IN  R(k, 100)

Round2(a) == Round2Of[a]

(***************************************************************************)
(* Metric formulas                                                         *)
(***************************************************************************)
\* a variant whose F1 is the product 2 * precision * recall, never divided by
\* precision + recall
RatiosOfProductF1(tp, fp, fn) ==
    LET precision == IF tp + fp > 0 THEN R(tp, tp + fp) ELSE Zero
        recall == IF tp + fn > 0 THEN R(tp, tp + fn) ELSE Zero
        accuracy == IF tp + fp + fn > 0 THEN R(tp, tp + fp + fn) ELSE Zero
    IN  [precision |-> precision, recall |-> recall,
         f1_score |-> RMul(R(2, 1), RMul(precision, recall)), accuracy |-> accuracy]

\* precision, recall, F1 and accuracy from the three counts, each ratio 0.0
\* when its denominator is not positive
RatiosOf(tp, fp, fn) ==
    LET precision == IF tp + fp > 0 THEN R(tp, tp + fp) ELSE Zero
        recall == IF tp + fn > 0 THEN R(tp, tp + fn) ELSE Zero
        pr == RAdd(precision, recall)
        f1 == IF RLt(Zero, pr)
              THEN RDiv(RMul(R(2, 1), RMul(precision, recall)), pr)
              ELSE Zero
        accuracy == IF tp + fp + fn > 0 THEN R(tp, tp + fp + fn) ELSE Zero
    IN  [precision |-> precision, recall |-> recall,
         f1_score |-> f1, accuracy |-> accuracy]

\* MetricsEngine._calculate_component_metrics, after the matching: the counts
\* derived from the number of matched pairs and the sizes of the two sets
ComponentMetricsOf(matched, nExpected, nActual) ==
    LET tp == matched
        fp == nActual - tp
        fn == nExpected - tp
        r == RatiosOf(tp, fp, fn)
    IN  [true_positives |-> tp, false_positives |-> fp, false_negatives |-> fn,
         precision |-> r.precision, recall |-> r.recall,
         f1_score |-> r.f1_score, accuracy |-> r.accuracy]

RECURSIVE SumField(_, _)
SumField(ms, f) ==
    IF ms = <<>> THEN 0 ELSE Head(ms)[f] + SumField(Tail(ms), f)

\* MetricsEngine._aggregate_metrics: micro-average over the categories
AggregateMetrics(metrics_list) ==
    LET total_tp == SumField(metrics_list, "true_positives")
        total_fp == SumField(metrics_list, "false_positives")
        total_fn == SumField(metrics_list, "false_negatives")
        r == RatiosOf(total_tp, total_fp, total_fn)
    IN  [true_positives |-> total_tp, false_positives |-> total_fp,
         false_negatives |-> total_fn,
         precision |-> r.precision, recall |-> r.recall,
         f1_score |-> r.f1_score, accuracy |-> r.accuracy]

\* MetricsCalculator.calculate_metrics (legacy): the counts are the lengths of
\* the three lists of the comparison result
LegacyCalculateMetrics(tp, fp, fn) ==
    LET precision == IF tp + fp > 0 THEN R(tp, tp + fp) ELSE Zero
        recall == IF tp + fn > 0 THEN R(tp, tp + fn) ELSE Zero
        pr == RAdd(precision, recall)
        f1 == IF RLt(Zero, pr)
              THEN RDiv(RMul(R(2, 1), RMul(precision, recall)), pr)
              ELSE Zero
        accuracy == IF tp + fp + fn > 0 THEN R(tp, tp + fp + fn) ELSE Zero
    IN  [precision |-> precision, recall |-> recall,
         f1_score |-> f1, accuracy |-> accuracy]

(***************************************************************************)
(* Strings.  A string is a sequence of character codes:                    *)
(*   0 space, 1..26 a..z, 27..52 A..Z, 53 e-circumflex, 54 o-dot-below     *)
(***************************************************************************)
SP == 0

\* str.lower(): the upper-case letters map to the lower-case ones
LowerCh(c) == IF c >= 27 /\ c <= 52 THEN c - 26 ELSE c

Lower(s) == [i \in 1..Len(s) |-> LowerCh(s[i])]

RECURSIVE LStrip(_)
LStrip(s) == IF s # <<>> /\ Head(s) = SP THEN LStrip(Tail(s)) ELSE s

RECURSIVE RStrip(_)
RStrip(s) ==
    IF s # <<>> /\ s[Len(s)] = SP THEN RStrip(SubSeq(s, 1, Len(s) - 1)) ELSE s

\* str.strip()
Strip(s) == LStrip(RStrip(s))

\* the strings of the model
StrUser == <<47, 19, 5, 18>>
StrUserLower == <<21, 19, 5, 18>>
StrUsers == <<47, 19, 5, 18, 19>>
StrUse == <<47, 19, 5>>
StrSinhVien == <<19, 9, 14, 8, SP, 22, 9, 5, 14>>
StrSinhVienAccent == <<19, 9, 14, 8, SP, 22, 9, 53, 14>>
StrHocSinh == <<8, 15, 3, SP, 19, 9, 14, 8>>
StrHocSinhAccent == <<8, 54, 3, SP, 19, 9, 14, 8>>
StrHocSinhCap == <<34, 15, 3, SP, 19, 9, 14, 8>>
StrStudent == <<19, 20, 21, 4, 5, 14, 20>>
StrNguoiDung == <<14, 7, 21, 15, 9, SP, 4, 21, 14, 7>>
StrLogin == <<38, 15, 7, 9, 14>>
StrAccount == <<27, 3, 3, 15, 21, 14, 20>>
StrAccoun == <<27, 3, 3, 15, 21, 14>>
StrOwner == <<41, 23, 14, 5, 18>>
StrBalance == <<2, 1, 12, 1, 14, 3, 5>>
StrDeposit == <<4, 5, 16, 15, 19, 9, 20>>
StrAssociation == <<1, 19, 19, 15, 3, 9, 1, 20, 9, 15, 14>>
\* punctuation of the comparison keys: ".", "->" and ":" (codes 55 to 58)
StrDot == <<55>>
StrArrow == <<56, 57>>
StrColon == <<58>>

(***************************************************************************)
(* difflib.SequenceMatcher(None, a, b).ratio() for strings shorter than    *)
(* 200 characters (no junk, no popularity heuristic)                       *)
(***************************************************************************)
\* the length of the common run of a from i and b from j, inside the windows
RECURSIVE RunLen(_, _, _, _, _, _)
RunLen(a, i, ahi, b, j, bhi) ==
    IF i <= ahi /\ j <= bhi /\ a[i] = b[j]
    THEN 1 + RunLen(a, i + 1, ahi, b, j + 1, bhi)
    ELSE 0

\* find_longest_match on a[alo..ahi], b[blo..bhi]: the longest block, of those
\* the one starting earliest in a, and of those the one starting earliest in b
FindLongestMatch(a, alo, ahi, b, blo, bhi) ==
    LET cands == {<<i, j, RunLen(a, i, ahi, b, j, bhi)>> : i \in alo..ahi, j \in blo..bhi}
        best == CHOOSE c \in cands :
                    \A o \in cands :
                        \/ c[3] > o[3]
                        \/ c[3] = o[3] /\ c[1] < o[1]
                        \/ c[3] = o[3] /\ c[1] = o[1] /\ c[2] <= o[2]
    IN  IF cands = {} THEN <<alo, blo, 0>> ELSE best

\* the total size of the matching blocks (get_matching_blocks)
RECURSIVE MatchCount(_, _, _, _, _, _)
MatchCount(a, alo, ahi, b, blo, bhi) ==
    IF alo > ahi \/ blo > bhi THEN 0
    ELSE LET m == FindLongestMatch(a, alo, ahi, b, blo, bhi)
         IN  IF m[3] = 0 THEN 0
             ELSE m[3]
                  + MatchCount(a, alo, m[1] - 1, b, blo, m[2] - 1)
                  + MatchCount(a, m[1] + m[3], ahi, b, m[2] + m[3], bhi)

\* ratio() = 2.0 * matches / (len(a) + len(b)), 1.0 for two empty strings
SequenceRatio(a, b) ==
    IF Len(a) + Len(b) = 0 THEN One
    ELSE R(2 * MatchCount(a, 1, Len(a), b, 1, Len(b)), Len(a) + Len(b))

(***************************************************************************)
(* MetricsEngine: pairwise similarity and greedy matching                  *)
(***************************************************************************)
\* the groups of the synonym table that can be spelled in the model's alphabet
\* (a group member with a character outside it equals no string of the model)
VariantGroups ==
    { {StrUserLower, StrNguoiDung},
      {StrStudent, StrHocSinh, StrHocSinhAccent, StrSinhVien, StrSinhVienAccent} }

AreSemanticVariants(str1, str2) ==
    \E variant_group \in VariantGroups : str1 \in variant_group /\ str2 \in variant_group

\* the default similarity threshold, 0.85
SimilarityThreshold == R(17, 20)

\* the boost for two members of one synonym group, 0.2
VariantBoost == R(1, 5)

CalculateSimilarity(str1, str2) ==
    LET str1_norm == Strip(Lower(str1))
        str2_norm == Strip(Lower(str2))
        similarity == SequenceRatio(str1_norm, str2_norm)
    IN  IF str1_norm = str2_norm THEN One
        ELSE IF AreSemanticVariants(str1_norm, str2_norm)
             THEN RMin(One, RAdd(similarity, VariantBoost))
             ELSE similarity

\* a variant of the inner loop that takes the first unused actual item at or
\* above the threshold instead of the most similar one
RECURSIVE BestMatchFirstFit(_, _, _, _, _, _)
BestMatchFirstFit(exp_item, act_order, used_actual, k, best_match, best_similarity) ==
    IF k > Len(act_order) THEN best_match
    ELSE IF act_order[k] \notin used_actual
            /\ RLe(SimilarityThreshold, CalculateSimilarity(exp_item, act_order[k]))
         THEN k
         ELSE BestMatchFirstFit(exp_item, act_order, used_actual, k + 1,
                                best_match, best_similarity)

\* the inner loop of _semantic_matching for one expected item: the position in
\* the visiting order of the best unused actual item, 0 for no match (None).
\* A later item replaces the best one only when strictly more similar.
RECURSIVE BestMatchFrom(_, _, _, _, _, _)
BestMatchFrom(exp_item, act_order, used_actual, k, best_match, best_similarity) ==
    IF k > Len(act_order) THEN best_match
    ELSE LET act_item == act_order[k]
             similarity == CalculateSimilarity(exp_item, act_item)
         IN  IF act_item \in used_actual
             THEN BestMatchFrom(exp_item, act_order, used_actual, k + 1,
                                best_match, best_similarity)
             ELSE IF RLe(SimilarityThreshold, similarity) /\ RLt(best_similarity, similarity)
                  THEN BestMatchFrom(exp_item, act_order, used_actual, k + 1, k, similarity)
                  ELSE BestMatchFrom(exp_item, act_order, used_actual, k + 1,
                                     best_match, best_similarity)

BestMatch(exp_item, act_order, used_actual) ==
    BestMatchFrom(exp_item, act_order, used_actual, 1, 0, Zero)

\* "if best_match:" is Python truthiness: None and the empty string are false
Truthy(act_order, k) == k # 0 /\ act_order[k] # <<>>

\* _semantic_matching as a whole, for the given visiting orders of the two sets
RECURSIVE SemanticMatchingFrom(_, _, _, _, _)
SemanticMatchingFrom(exp_order, act_order, i, matched_pairs, used_actual) ==
    IF i > Len(exp_order) THEN matched_pairs
    ELSE LET k == BestMatch(exp_order[i], act_order, used_actual)
         IN  IF Truthy(act_order, k)
             THEN SemanticMatchingFrom(exp_order, act_order, i + 1,
                                       matched_pairs \cup {<<exp_order[i], act_order[k]>>},
                                       used_actual \cup {act_order[k]})
             ELSE SemanticMatchingFrom(exp_order, act_order, i + 1,
                                       matched_pairs, used_actual)

SemanticMatching(exp_order, act_order) ==
    SemanticMatchingFrom(exp_order, act_order, 1, {}, {})

\* a variant of the set comparison that reports every actual key as a false
\* positive
SemanticMatchAllActual(expected, actual) ==
    [true_positives |-> expected \cap actual,
     false_positives |-> actual,
     false_negatives |-> expected \ actual]

\* ComponentMatcher._semantic_match: exact matching by set operations
SemanticMatch(expected, actual) ==
    [true_positives |-> expected \cap actual,
     false_positives |-> actual \ expected,
     false_negatives |-> expected \ actual]

\* _calculate_component_metrics for two key sets visited in the given orders
CalculateComponentMetrics(exp_order, act_order) ==
    ComponentMetricsOf(Cardinality(SemanticMatching(exp_order, act_order)),
                       Len(exp_order), Len(act_order))

(***************************************************************************)
(* Scores: MetricsEngine's similarity score, PhaseTwoExtractor's fallback   *)
(* score and Phase 3's ScoreCalculator.  A dict is a set of <<key, value>>  *)
(* pairs; None and the empty dict are both the empty set (both are falsy).  *)
(***************************************************************************)
\* dict.get(key, default)
DictGet(dict, key, default) ==
    IF \E p \in dict : p[1] = key
    THEN (CHOOSE p \in dict : p[1] = key)[2]
    ELSE default

RECURSIVE SumF1(_)
SumF1(ms) == IF ms = <<>> THEN Zero ELSE RAdd(Head(ms).f1_score, SumF1(Tail(ms)))

\* a variant that divides the sum of the F1 scores by four, whatever the
\* number of categories
SimilarityScoreOverFour(component_metrics) ==
    IF component_metrics = <<>> THEN Zero
    ELSE RDiv(SumF1(component_metrics), R(4, 1))

\* MetricsEngine._calculate_similarity_score: the mean of the categories' F1
CalculateSimilarityScore(component_metrics) ==
    IF component_metrics = <<>> THEN Zero
    ELSE RDiv(SumF1(component_metrics), R(Len(component_metrics), 1))

\* the serialized DiagramMetrics of a comparison with the given categories
DiagramMetricsOf(component_metrics) ==
    [component_metrics |-> component_metrics,
     overall_metrics |-> AggregateMetrics(component_metrics),
     similarity_score |-> CalculateSimilarityScore(component_metrics)]

\* a variant of calculate_final_score without the low-similarity penalty
FallbackScoreWithoutPenalty(metrics) ==
    LET o == metrics.overall_metrics
        weighted_score == RAdd(RAdd(RMul(o.precision, R(3, 10)),
                                    RMul(o.recall, R(3, 10))),
                               RMul(o.f1_score, R(4, 10)))
    IN  Round2(RMul(weighted_score, R(10, 1)))

\* PhaseTwoExtractor.calculate_final_score with its default weights
ExtractorCalculateFinalScore(metrics) ==
    LET o == metrics.overall_metrics
        weighted_score == RAdd(RAdd(RMul(o.precision, R(3, 10)),
                                    RMul(o.recall, R(3, 10))),
                               RMul(o.f1_score, R(4, 10)))
        final_score == RMul(weighted_score, R(10, 1))
    IN  Round2(IF RLt(metrics.similarity_score, R(1, 2))
               THEN RMul(final_score, R(8, 10))
               ELSE final_score)

\* ThreePhasePipeline._get_letter_grade
PipelineGetLetterGrade(score) ==
    IF RLe(R(9, 1), score) THEN "A"
    ELSE IF RLe(R(8, 1), score) THEN "B"
    ELSE IF RLe(R(7, 1), score) THEN "C"
    ELSE IF RLe(R(6, 1), score) THEN "D"
    ELSE "F"

\* ScoreCalculator.default_weights
DefaultWeights ==
    {<<"precision", R(1, 4)>>, <<"recall", R(1, 4)>>,
     <<"f1_score", R(7, 20)>>, <<"accuracy", R(3, 20)>>}

\* ScoreCalculator.severity_penalties
SeverityPenalties ==
    {<<"critical", R(2, 1)>>, <<"high", R(3, 2)>>, <<"medium", One>>, <<"low", R(1, 2)>>}

\* ScoreCalculator._calculate_base_score
CalculateBaseScore(metrics, weights) ==
    LET o == metrics.overall_metrics
        base_score ==
            RAdd(RAdd(RMul(o.precision, DictGet(weights, "precision", R(1, 4))),
                      RMul(o.recall, DictGet(weights, "recall", R(1, 4)))),
                 RAdd(RMul(o.f1_score, DictGet(weights, "f1_score", R(7, 20))),
                      RMul(o.accuracy, DictGet(weights, "accuracy", R(3, 20)))))
    IN  RMul(base_score, R(10, 1))

\* the loop over severity_breakdown.items() of _calculate_penalties
RECURSIVE SeverityPenalty(_)
SeverityPenalty(items) ==
    IF items = {} THEN Zero
    ELSE LET it == CHOOSE x \in items : TRUE
             rest == SeverityPenalty(items \ {it})
         IN  IF it[2] > 0
             THEN RAdd(rest, RMul(RMul(R(it[2], 1), DictGet(SeverityPenalties, it[1], One)),
                                  R(1, 10)))
             ELSE rest

\* a variant of _calculate_penalties without the caps of 2.0 and 3.0
CalculatePenaltiesUncapped(error_analysis) ==
    LET severity_penalty == SeverityPenalty(error_analysis.severity_breakdown)
        critical_missing ==
            \E cat \in error_analysis.error_categories :
                cat.category = "missing_components" /\ cat.severity \in {"high", "critical"}
    IN  [total_errors |-> IF error_analysis.total_errors > 0
                          THEN R(error_analysis.total_errors * 2, 10)
                          ELSE Zero,
         severity_based |-> IF RLt(Zero, severity_penalty) THEN severity_penalty ELSE Zero,
         low_confidence |-> IF RLt(error_analysis.confidence, R(7, 10))
                            THEN R(1, 2) ELSE Zero,
         critical_missing |-> IF critical_missing THEN One ELSE Zero]

\* ScoreCalculator._calculate_penalties: a penalty that is not applied is 0
CalculatePenalties(error_analysis) ==
    LET severity_penalty == SeverityPenalty(error_analysis.severity_breakdown)
        critical_missing ==
            \E cat \in error_analysis.error_categories :
                cat.category = "missing_components" /\ cat.severity \in {"high", "critical"}
    IN  [total_errors |-> IF error_analysis.total_errors > 0
                          THEN RMin(R(2, 1), R(error_analysis.total_errors * 2, 10))
                          ELSE Zero,
         severity_based |-> IF RLt(Zero, severity_penalty)
                            THEN RMin(R(3, 1), severity_penalty)
                            ELSE Zero,
         low_confidence |-> IF RLt(error_analysis.confidence, R(7, 10))
                            THEN R(1, 2) ELSE Zero,
         critical_missing |-> IF critical_missing THEN One ELSE Zero]

RECURSIVE CountPerfect(_)
CountPerfect(ms) ==
    IF ms = <<>> THEN 0
    ELSE (IF Head(ms).f1_score = One THEN 1 ELSE 0) + CountPerfect(Tail(ms))

\* ScoreCalculator._calculate_bonuses: a bonus that is not applied is 0
CalculateBonuses(metrics, feedback_result) ==
    [similarity |-> IF RLt(R(9, 10), metrics.similarity_score) THEN R(1, 2)
                    ELSE IF RLt(R(8, 10), metrics.similarity_score) THEN R(3, 10)
                    ELSE Zero,
     identified_strengths |-> IF Len(feedback_result.strengths) >= 2
                              THEN R(3, 10) ELSE Zero,
     perfect_components |-> R(CountPerfect(metrics.component_metrics) * 2, 10),
     high_precision |-> IF RLt(R(95, 100), metrics.overall_metrics.precision)
                        THEN R(3, 10) ELSE Zero]

\* ScoreCalculator._get_letter_grade over grade_thresholds, in insertion order
GetLetterGrade(score) ==
    IF RLe(R(9, 1), score) THEN "A"
    ELSE IF RLe(R(8, 1), score) THEN "B"
    ELSE IF RLe(R(7, 1), score) THEN "C"
    ELSE IF RLe(R(6, 1), score) THEN "D"
    ELSE "F"

\* a variant of calculate_final_score without the clamp to the 0-10 range
CalculateFinalScoreUnclamped(metrics, error_analysis, feedback_result, custom_weights) ==
    LET weights == IF custom_weights = {} THEN DefaultWeights ELSE custom_weights
        base_score == CalculateBaseScore(metrics, weights)
        p == CalculatePenalties(error_analysis)
        b == CalculateBonuses(metrics, feedback_result)
        penalised == RSub(RSub(RSub(RSub(base_score, p.total_errors), p.severity_based),
                               p.low_confidence), p.critical_missing)
        final_score == RAdd(RAdd(RAdd(RAdd(penalised, b.similarity), b.identified_strengths),
                                 b.perfect_components), b.high_precision)
    IN  [base_score |-> Round2(base_score), penalties |-> p, bonuses |-> b,
         final_score |-> Round2(final_score),
         grade_letter |-> GetLetterGrade(final_score)]

\* ScoreCalculator.calculate_final_score: the grade is taken from the clamped
\* score before it is rounded for the final_score field
CalculateFinalScore(metrics, error_analysis, feedback_result, custom_weights) ==
    LET weights == IF custom_weights = {} THEN DefaultWeights ELSE custom_weights
        base_score == CalculateBaseScore(metrics, weights)
        p == CalculatePenalties(error_analysis)
        b == CalculateBonuses(metrics, feedback_result)
        penalised == RSub(RSub(RSub(RSub(base_score, p.total_errors), p.severity_based),
                               p.low_confidence), p.critical_missing)
        raw_score == RAdd(RAdd(RAdd(RAdd(penalised, b.similarity), b.identified_strengths),
                               b.perfect_components), b.high_precision)
        final_score == RMax(Zero, RMin(R(10, 1), raw_score))
    IN  [base_score |-> Round2(base_score), penalties |-> p, bonuses |-> b,
         final_score |-> Round2(final_score),
         grade_letter |-> GetLetterGrade(final_score)]


\* the value of a result that has not been produced yet, and an empty dict
None == [none |-> TRUE]

(***************************************************************************)
(* Phase 2: the parsers and the metrics of a comparison.  A diagram text is *)
(* a sequence of statements, one per line, each one of the forms below;     *)
(* the lists a parser returns hold no duplicates and are modelled as sets. *)
(*   actor_quoted    actor "User"                                          *)
(*   actor_bare      actor User                                            *)
(*   usecase_quoted  usecase "Login"                                       *)
(*   parens          (Login)                                               *)
(*   arrow           User --> Login                                        *)
(*   class_bare      class Account                                         *)
(*   class_body      class Account { +balance: int / +deposit() }          *)
(*   link            Account -- Owner                                      *)
(*   inherit         Account --|> Owner                                    *)
(*   participant     participant Alice                                     *)
(*   message         Alice -> Bob: hello                                   *)
(***************************************************************************)
USE_CASE == "use_case"

CLASS == "class"

SEQUENCE == "sequence"

DiagramTypes == {USE_CASE, CLASS, SEQUENCE}

UseCaseStatements == {"actor_quoted", "actor_bare", "usecase_quoted", "parens", "arrow"}

ClassStatements == {"class_bare", "class_body", "link", "inherit"}

SequenceStatements == {"participant", "message"}

StatementsOf(diagram_type) ==
    IF diagram_type = USE_CASE THEN UseCaseStatements
    ELSE IF diagram_type = CLASS THEN ClassStatements
    ELSE SequenceStatements

Has(code, statement) == \E i \in 1..Len(code) : code[i] = statement

\* UseCaseParser._extract_actors.  Pattern 1 takes group(1), the empty quote,
\* for an unquoted name, so "actor User" yields no actor; ":..:" and "(..)"
\* yield the enclosed name; every word next to "-->" is added as an actor
UseCaseExtractActors(code) ==
    (IF Has(code, "actor_quoted") THEN {StrUser} ELSE {})
    \cup (IF Has(code, "parens") THEN {StrLogin} ELSE {})
    \cup (IF Has(code, "arrow") THEN {StrUser, StrLogin} ELSE {})

\* UseCaseParser._extract_use_cases: quoted usecase names, names in
\* parentheses, and quoted names that look like a use case
UseCaseExtractUseCases(code) ==
    (IF Has(code, "usecase_quoted") THEN {StrLogin} ELSE {})
    \cup (IF Has(code, "parens") THEN {StrLogin} ELSE {})

\* UseCaseParser._extract_relationships: an arrow whose two ends are known
UseCaseExtractRelationships(code, actors, use_cases) ==
    IF /\ Has(code, "arrow")
       /\ StrUser \in actors \cup use_cases
       /\ StrLogin \in actors \cup use_cases
    THEN {[source |-> StrUser, target |-> StrLogin, relationship_type |-> StrAssociation]}
    ELSE {}

\* UseCaseParser.parse_diagram
UseCaseParseDiagram(code) ==
    LET actors == UseCaseExtractActors(code)
        use_cases == UseCaseExtractUseCases(code)
    IN  [actors |-> actors, use_cases |-> use_cases,
         relationships |-> UseCaseExtractRelationships(code, actors, use_cases)]

\* ClassDiagramParser._extract_classes.  A class with a body is found first,
\* with its attributes and methods; the simple pattern "class\s+(\w+)(?!\s*{)"
\* then backtracks on it and yields the name without its last letter
ClassExtractClasses(code) ==
    (IF Has(code, "class_body")
     THEN {[name |-> StrAccount, attributes |-> {StrBalance}, methods |-> {StrDeposit}],
           [name |-> StrAccoun, attributes |-> {}, methods |-> {}]}
     ELSE {})
    \cup (IF ~Has(code, "class_body") /\ (Has(code, "class_bare") \/ Has(code, "link"))
          THEN {[name |-> StrAccount, attributes |-> {}, methods |-> {}]}
          ELSE {})
    \cup (IF Has(code, "link")
          THEN {[name |-> StrOwner, attributes |-> {}, methods |-> {}]}
          ELSE {})

\* ClassDiagramParser._extract_relationships.  The arrow alternation
\* "(--|>|..." splits at the unescaped "|", so "--|>" matches nothing
ClassExtractRelationships(code, classes) ==
    LET class_names == {cls.name : cls \in classes}
    IN  IF Has(code, "link") /\ StrAccount \in class_names /\ StrOwner \in class_names
        THEN {[source |-> StrAccount, target |-> StrOwner,
               relationship_type |-> StrAssociation]}
        ELSE {}

\* ClassDiagramParser.parse_diagram
ClassParseDiagram(code) ==
    LET classes == ClassExtractClasses(code)
    IN  [classes |-> classes,
         relationships |-> ClassExtractRelationships(code, classes)]

\* DiagramFactory.create_diagram(SEQUENCE): the stub used for sequence texts
EmptySequenceDiagram == [participants |-> {}, messages |-> {}]

\* PhaseTwoExtractor._extract_diagram_components
ExtractDiagramComponents(plantuml_code, diagram_type) ==
    IF diagram_type = USE_CASE THEN UseCaseParseDiagram(plantuml_code)
    ELSE IF diagram_type = CLASS THEN ClassParseDiagram(plantuml_code)
    ELSE EmptySequenceDiagram

\* MetricsEngine._relationship_key and _class_relationship_key
RelationshipKey(rel) ==
    rel.source \o StrArrow \o rel.target \o StrColon \o rel.relationship_type

\* the keys "Class.member" of the attributes or of the methods
MemberKeys(classes, member) ==
    UNION {{cls.name \o StrDot \o m : m \in cls[member]} : cls \in classes}

\* the visiting orders of a set: a Python set is iterated in an arbitrary order
PermsOf(S) ==
    {o \in [1..Cardinality(S) -> S] : \A i, j \in 1..Cardinality(S) : i # j => o[i] # o[j]}

\* the results _calculate_component_metrics can return for two key sets
ComponentMetricsOutcomes(expected, actual) ==
    {CalculateComponentMetrics(eo, ao) : eo \in PermsOf(expected), ao \in PermsOf(actual)}

\* MetricsEngine._calculate_use_case_metrics
CalculateUseCaseMetrics(expected, actual) ==
    {DiagramMetricsOf(<<actor, use_case, relationship>>) :
        actor \in ComponentMetricsOutcomes(expected.actors, actual.actors),
        use_case \in ComponentMetricsOutcomes(expected.use_cases, actual.use_cases),
        relationship \in ComponentMetricsOutcomes(
            {RelationshipKey(rel) : rel \in expected.relationships},
            {RelationshipKey(rel) : rel \in actual.relationships})}

\* MetricsEngine._calculate_class_metrics
CalculateClassMetrics(expected, actual) ==
    {DiagramMetricsOf(<<class, attribute, method, relationship>>) :
        class \in ComponentMetricsOutcomes({cls.name : cls \in expected.classes},
                                           {cls.name : cls \in actual.classes}),
        attribute \in ComponentMetricsOutcomes(MemberKeys(expected.classes, "attributes"),
                                               MemberKeys(actual.classes, "attributes")),
        method \in ComponentMetricsOutcomes(MemberKeys(expected.classes, "methods"),
                                            MemberKeys(actual.classes, "methods")),
        relationship \in ComponentMetricsOutcomes(
            {RelationshipKey(rel) : rel \in expected.relationships},
            {RelationshipKey(rel) : rel \in actual.relationships})}

\* MetricsEngine._calculate_sequence_metrics
CalculateSequenceMetrics(expected, actual) ==
    {DiagramMetricsOf(<<participant, message>>) :
        participant \in ComponentMetricsOutcomes(expected.participants, actual.participants),
        message \in ComponentMetricsOutcomes(expected.messages, actual.messages)}

\* MetricsEngine.calculate_diagram_metrics: the metrics it can return
CalculateDiagramMetrics(expected_diagram, actual_diagram, diagram_type) ==
    IF diagram_type = USE_CASE THEN CalculateUseCaseMetrics(expected_diagram, actual_diagram)
    ELSE IF diagram_type = CLASS THEN CalculateClassMetrics(expected_diagram, actual_diagram)
    ELSE CalculateSequenceMetrics(expected_diagram, actual_diagram)

\* PhaseTwoExtractor.extract_and_calculate_metrics: the results it can return;
\* an exception inside it (fault) gives the failure result
ExtractAndCalculateMetrics(normalized_student_plantuml, teacher_plantuml, diagram_type, fault) ==
    IF fault
    THEN {[success |-> FALSE, diagram_type |-> diagram_type,
           teacher_diagram |-> None, student_diagram |-> None, metrics |-> None,
           errors |-> <<"phase 2 exception">>, warnings |-> <<>>]}
    ELSE LET teacher_diagram == ExtractDiagramComponents(teacher_plantuml, diagram_type)
             student_diagram == ExtractDiagramComponents(normalized_student_plantuml,
                                                         diagram_type)
         IN  {[success |-> TRUE, diagram_type |-> diagram_type,
               teacher_diagram |-> teacher_diagram, student_diagram |-> student_diagram,
               metrics |-> metrics, errors |-> <<>>, warnings |-> <<>>] :
                 metrics \in CalculateDiagramMetrics(teacher_diagram, student_diagram,
                                                     diagram_type)}

(***************************************************************************)
(* State                                                                   *)
(***************************************************************************)
VARIABLES
    \* metric formulas: the counts of two categories and the computed metrics
    mcIn,
    mcOut,
    \* semantic matching: the two key sets in their visiting orders, the outer
    \* loop's position, the loop's locals and the resulting component metrics
    smExpected,
    smActual,
    smIdx,
    matched_pairs,
    used_actual,
    smOut,
    \* scores: the inputs of the score formulas and the computed scores
    scIn,
    scOut,
    \* Phase 2 alone: its inputs, its ExtractionResult and the scores derived
    p2In,
    p2Out,
    p2Score,
    \* the grading pipeline: the position of the invocation, the request and the
    \* configuration, normalize_conventions' locals (attempt, the next step of
    \* the chain, retries_used, warnings, the chain's results so far, the number
    \* of chain executions that returned), the
    \* generation calls made per phase, the phase results, process_diagram's
    \* warnings and errors lists, what the invocation returned or raised, and
    \* the time slept since the last generation round-trip ended, in units of
    \* rate_limit_delay
    pc,
    request,
    config,
    attempt,
    step_index,
    retries_used,
    chain_warnings,
    chain_results,
    chain_returns,
    calls,
    phase_one,
    phase_two,
    phase_three_errors,
    phase_three,
    pipeline_warnings,
    pipeline_errors,
    pipeline_result,
    raised,
    slept,
    \* the legacy ScoringPipeline: the position of process_scoring_request, its
    \* request, the steps it ran so far and what it returned or raised
    lgPc,
    lgRequest,
    lgSteps,
    lgOut,
    \* the generation gateway of one ThreePhasePipeline: its detailed_logs list,
    \* the generation calls completed since the list was last cleared, and per
    \* grading invocation on that pipeline: its position, the number of times
    \* it was started, the log entries its own calls appended in this run, and
    \* the log its caller read when it returned
    detailed_logs,
    gwCalls,
    invPc,
    invRuns,
    invOwn,
    invRead,
    \* the normalization validator alone: the normalized code and the generation
    \* response handed to it, and the ValidationResult it returned
    nvIn,
    nvOut,
    \* the response parsers alone: the step, the decoded response handed to its
    \* parser, and what the parser returned or raised
    prIn,
    prOut,
    \* the confidences of one grading run alone: the position in the run, the
    \* confidence field of each step's generation response, and the confidences
    \* the step parsers and the aggregations gave
    cfPc,
    cfIn,
    cfOut,
    \* multi_prompt_chain alone: its prompts, the loop index i, its results
    \* list, the context it accumulated, the sends and sleeps it made in
    \* order, and what it returned or raised
    mpPrompts,
    mpIndex,
    mpResults,
    mpContext,
    mpTrace,
    mpOut

mcVars == <<mcIn, mcOut>>

smVars == <<smExpected, smActual, smIdx, matched_pairs, used_actual, smOut>>

scVars == <<scIn, scOut>>

p2Vars == <<p2In, p2Out, p2Score>>

chainVars ==
    <<attempt, step_index, retries_used, chain_warnings, chain_results, chain_returns>>

plVars ==
    <<pc, request, config, chainVars, calls, phase_one, phase_two, phase_three_errors,
      phase_three, pipeline_warnings, pipeline_errors, pipeline_result, raised, slept>>

lgVars == <<lgPc, lgRequest, lgSteps, lgOut>>

gwVars == <<detailed_logs, gwCalls, invPc, invRuns, invOwn, invRead>>

nvVars == <<nvIn, nvOut>>

prVars == <<prIn, prOut>>

cfVars == <<cfPc, cfIn, cfOut>>

mpVars == <<mpPrompts, mpIndex, mpResults, mpContext, mpTrace, mpOut>>

exVars == <<cfVars, mpVars>>

auxVars == <<lgVars, gwVars, nvVars, prVars, exVars>>

vars == <<mcVars, smVars, scVars, p2Vars, plVars, auxVars>>

(***************************************************************************)
(* SpecMetrics: the metric formulas applied to every count triple          *)
(***************************************************************************)
Counts == 0..MaxCount

\* a category's counts as the engine obtains them: matched pairs out of two sets
CategoryInputs == [tp : Counts, fp : Counts, fn : Counts]

McIdle == mcIn = None /\ mcOut = None

SmIdle ==
    /\ smExpected = <<>> /\ smActual = <<>> /\ smIdx = 0
    /\ matched_pairs = {} /\ used_actual = {} /\ smOut = None

ScIdle == scIn = None /\ scOut = None

P2Idle == p2In = None /\ p2Out = None /\ p2Score = None

PlIdle ==
    /\ pc = "idle" /\ request = None /\ config = None
    /\ attempt = 0 /\ step_index = 0 /\ retries_used = 0
    /\ chain_warnings = <<>> /\ chain_results = None /\ chain_returns = 0
    /\ calls = None
    /\ phase_one = None /\ phase_two = None /\ phase_three_errors = None
    /\ phase_three = None
    /\ pipeline_warnings = <<>> /\ pipeline_errors = <<>>
    /\ pipeline_result = None /\ raised = FALSE /\ slept = 0

LgIdle == lgPc = "idle" /\ lgRequest = None /\ lgSteps = <<>> /\ lgOut = None

Invocations == {1, 2}

GwIdle ==
    /\ detailed_logs = <<>>
    /\ gwCalls = <<>>
    /\ invPc = [i \in Invocations |-> "idle"]
    /\ invRuns = [i \in Invocations |-> 0]
    /\ invOwn = [i \in Invocations |-> <<>>]
    /\ invRead = [i \in Invocations |-> None]

NvIdle == nvIn = None /\ nvOut = None

PrIdle == prIn = None /\ prOut = None

CfIdle == cfPc = "idle" /\ cfIn = None /\ cfOut = None

MpIdle ==
    /\ mpPrompts = <<>> /\ mpIndex = 0 /\ mpResults = <<>> /\ mpContext = {}
    /\ mpTrace = <<>> /\ mpOut = None

ExIdle == CfIdle /\ MpIdle

AuxIdle == LgIdle /\ GwIdle /\ NvIdle /\ PrIdle /\ ExIdle

MetricsInit ==
    /\ mcIn \in [a : CategoryInputs, b : CategoryInputs]
    /\ mcOut = None
    /\ SmIdle
    /\ ScIdle
    /\ P2Idle
    /\ PlIdle
    /\ AuxIdle

\* one comparison: per-category metrics, their aggregate, and the legacy
\* calculator on the first category's counts
ComputeMetrics ==
    /\ mcOut = None
    /\ LET ma == ComponentMetricsOf(mcIn.a.tp, mcIn.a.tp + mcIn.a.fn, mcIn.a.tp + mcIn.a.fp)
           mb == ComponentMetricsOf(mcIn.b.tp, mcIn.b.tp + mcIn.b.fn, mcIn.b.tp + mcIn.b.fp)
       IN  mcOut' = [component |-> ma,
                     overall |-> AggregateMetrics(<<ma, mb>>),
                     legacy |-> LegacyCalculateMetrics(ma.true_positives,
                                                       ma.false_positives,
                                                       ma.false_negatives)]
    /\ UNCHANGED <<mcIn, smVars, scVars, p2Vars, plVars, auxVars>>

MetricsNext == ComputeMetrics

SpecMetrics == MetricsInit /\ [][MetricsNext]_vars

InUnitInterval(x) == RLe(Zero, x) /\ RLe(x, One)

RatiosInRange(m) ==
    /\ InUnitInterval(m.precision)
    /\ InUnitInterval(m.recall)
    /\ InUnitInterval(m.f1_score)
    /\ InUnitInterval(m.accuracy)

ZeroWhenUndefined(m, tp, fp, fn) ==
    /\ (tp + fp = 0 => m.precision = Zero)
    /\ (tp + fn = 0 => m.recall = Zero)
    /\ (tp + fp + fn = 0 => m.accuracy = Zero)
    /\ (RAdd(m.precision, m.recall) = Zero => m.f1_score = Zero)

\* C10: for all counts tp, fp, fn >= 0 the computed precision, recall, F1 and
\* accuracy lie in [0,1], a ratio is 0 when its denominator is 0, and F1 is 0
\* when precision + recall is 0; for the per-category metrics, the aggregate
\* metrics and the legacy MetricsCalculator.
C10_MetricsInUnitInterval ==
    mcOut # None =>
        /\ RatiosInRange(mcOut.component)
        /\ ZeroWhenUndefined(mcOut.component, mcIn.a.tp, mcIn.a.fp, mcIn.a.fn)
        /\ RatiosInRange(mcOut.overall)
        /\ ZeroWhenUndefined(mcOut.overall, mcIn.a.tp + mcIn.b.tp,
                             mcIn.a.fp + mcIn.b.fp, mcIn.a.fn + mcIn.b.fn)
        /\ RatiosInRange(mcOut.legacy)
        /\ ZeroWhenUndefined(mcOut.legacy, mcIn.a.tp, mcIn.a.fp, mcIn.a.fn)

\* metrics computed for a category without any actual item (precision has a
\* zero denominator) whose aggregate F1 lies strictly between 0 and 1
C10_Witness ==
    /\ mcOut # None
    /\ mcIn.a.tp + mcIn.a.fp = 0
    /\ mcIn.a.fn > 0
    /\ mcOut.component.precision = Zero
    /\ RLt(Zero, mcOut.overall.f1_score)
    /\ RLt(mcOut.overall.f1_score, One)

(***************************************************************************)
(* SpecScore: the score formulas applied to bounded metrics and analyses   *)
(***************************************************************************)
ScoreCategoryInputs ==
    [tp : 0..MaxScoreCount, fp : 0..MaxScoreExtra, fn : 0..MaxScoreMiss]

\* the outcomes of Phase 3's two analysis steps, as their response parsers
\* can return them: an error analysis and the strengths named by the feedback
NoErrors ==
    [total_errors |-> 0, severity_breakdown |-> {}, confidence |-> R(9, 10),
     error_categories |-> {}]

OneMediumError ==
    [total_errors |-> 1, severity_breakdown |-> {<<"medium", 1>>},
     confidence |-> R(9, 10),
     error_categories |-> {[category |-> "extra_components", severity |-> "medium"]}]

UncertainErrors ==
    [total_errors |-> 3,
     severity_breakdown |-> {<<"low", 2>>, <<"blocker", 1>>, <<"high", 0>>},
     confidence |-> R(3, 5),
     error_categories |-> {[category |-> "missing_components", severity |-> "low"]}]

ManyCriticalErrors ==
    [total_errors |-> 15, severity_breakdown |-> {<<"critical", 20>>},
     confidence |-> R(1, 2),
     error_categories |-> {[category |-> "missing_components", severity |-> "critical"]}]

NoStrengths == [strengths |-> <<>>, confidence |-> R(7, 10)]

TwoStrengths == [strengths |-> <<"s1", "s2">>, confidence |-> R(9, 10)]

AnalysisOutcomes ==
    { [error_analysis |-> NoErrors, feedback_result |-> NoStrengths],
      [error_analysis |-> NoErrors, feedback_result |-> TwoStrengths],
      [error_analysis |-> OneMediumError, feedback_result |-> TwoStrengths],
      [error_analysis |-> UncertainErrors, feedback_result |-> NoStrengths],
      [error_analysis |-> ManyCriticalErrors, feedback_result |-> TwoStrengths] }

\* no custom weights, or a partial dict with a weight above 1 and a negative one
WeightChoices ==
    { {}, {<<"precision", R(4, 1)>>, <<"recall", R(-4, 1)>>} }

ScoreInit ==
    /\ \E an \in AnalysisOutcomes :
           scIn \in [a : ScoreCategoryInputs, b : ScoreCategoryInputs,
                     error_analysis : {an.error_analysis},
                     feedback_result : {an.feedback_result},
                     custom_weights : WeightChoices]
    /\ scOut = None
    /\ McIdle
    /\ SmIdle
    /\ P2Idle
    /\ PlIdle
    /\ AuxIdle

\* the metrics of a two-category comparison with the given counts
ScoreMetrics ==
    DiagramMetricsOf(<<ComponentMetricsOf(scIn.a.tp, scIn.a.tp + scIn.a.fn,
                                          scIn.a.tp + scIn.a.fp),
                       ComponentMetricsOf(scIn.b.tp, scIn.b.tp + scIn.b.fn,
                                          scIn.b.tp + scIn.b.fp)>>)

\* Phase 3's score calculation and Phase 2's fallback score on the same metrics
ComputeScores ==
    /\ scOut = None
    /\ LET fallback == ExtractorCalculateFinalScore(ScoreMetrics)
       IN  scOut' = [breakdown |-> CalculateFinalScore(ScoreMetrics, scIn.error_analysis,
                                                       scIn.feedback_result,
                                                       scIn.custom_weights),
                     fallback |-> fallback,
                     fallback_grade |-> PipelineGetLetterGrade(fallback)]
    /\ UNCHANGED <<scIn, mcVars, smVars, p2Vars, plVars, auxVars>>

ScoreNext == ComputeScores

SpecScore == ScoreInit /\ [][ScoreNext]_vars

InScoreRange(x) == RLe(Zero, x) /\ RLe(x, R(10, 1))

\* C6: in every ScoreBreakdown the grade_letter is the threshold grade
\* (A >= 9, B >= 8, C >= 7, D >= 6, else F) of the final_score field of that
\* same breakdown.
C6_GradeOfReportedScore ==
    scOut # None =>
        scOut.breakdown.grade_letter = GetLetterGrade(scOut.breakdown.final_score)

(***************************************************************************)
(* SpecPhase2: Phase 2 on a teacher's and a student's text, then the scores *)
(***************************************************************************)
\* the diagram texts of a type with at most n statements
Texts(diagram_type, n) == UNION {[1..k -> StatementsOf(diagram_type)] : k \in 0..n}

Phase2Init ==
    /\ \E t \in DiagramTypes :
       \E teacher \in Texts(t, MaxStatements) :
       \E student \in {teacher} \cup Texts(t, MaxStudentStatements) :
           p2In = [diagram_type |-> t, teacher_plantuml |-> teacher,
                   student_plantuml |-> student]
    /\ p2Out = None
    /\ p2Score = None
    /\ McIdle
    /\ SmIdle
    /\ ScIdle
    /\ PlIdle
    /\ AuxIdle

\* PhaseTwoExtractor.extract_and_calculate_metrics
Phase2Extract ==
    /\ p2Out = None
    /\ \E fault \in BOOLEAN :
           p2Out' \in ExtractAndCalculateMetrics(p2In.student_plantuml, p2In.teacher_plantuml,
                                                 p2In.diagram_type, fault)
    /\ UNCHANGED <<p2In, p2Score, mcVars, smVars, scVars, plVars, auxVars>>

\* the fallback score of the metrics and Phase 3's score calculation on them
Phase2Scores ==
    /\ p2Out # None
    /\ p2Out.success
    /\ p2Score = None
    /\ \E an \in AnalysisOutcomes, custom_weights \in WeightChoices :
           p2Score' = [fallback |-> ExtractorCalculateFinalScore(p2Out.metrics),
                       breakdown |-> CalculateFinalScore(p2Out.metrics, an.error_analysis,
                                                         an.feedback_result, custom_weights),
                       error_analysis |-> an.error_analysis,
                       custom_weights |-> custom_weights]
    /\ UNCHANGED <<p2In, p2Out, mcVars, smVars, scVars, plVars, auxVars>>

Phase2Next == Phase2Extract \/ Phase2Scores

SpecPhase2 == Phase2Init /\ [][Phase2Next]_vars

IdenticalTexts == p2In.teacher_plantuml = p2In.student_plantuml

\* the teacher's text declares at least one component in every category
EveryCategoryPopulated ==
    \A i \in 1..Len(p2Out.metrics.component_metrics) :
        LET m == p2Out.metrics.component_metrics[i]
        IN  m.true_positives + m.false_negatives > 0

TopScore(breakdown) == breakdown.final_score = R(10, 1) /\ breakdown.grade_letter = "A"

KeyUniverse ==
    {StrUser, StrUsers, StrUse, StrHocSinhCap, StrHocSinhAccent}

\* the visiting orders of the sets of at most n keys: a Python set is iterated
\* in an arbitrary order, the same one each time while the set is unchanged
Orders(n) ==
    UNION {{o \in [1..k -> KeyUniverse] : \A i, j \in 1..k : i # j => o[i] # o[j]} : k \in 0..n}

SetOf(order) == {order[i] : i \in 1..Len(order)}

MatchInit ==
    /\ smExpected \in Orders(MaxSet)
    /\ smActual \in Orders(MaxSet)
    /\ smIdx = 1
    /\ matched_pairs = {}
    /\ used_actual = {}
    /\ smOut = None
    /\ McIdle
    /\ ScIdle
    /\ P2Idle
    /\ PlIdle
    /\ AuxIdle

\* a variant of the iteration that never marks the matched item as used
MatchVisitReusing ==
    /\ smOut = None
    /\ smIdx <= Len(smExpected)
    /\ LET k == BestMatch(smExpected[smIdx], smActual, used_actual)
       IN  IF Truthy(smActual, k)
           THEN /\ matched_pairs' = matched_pairs \cup {<<smExpected[smIdx], smActual[k]>>}
                /\ UNCHANGED used_actual
           ELSE UNCHANGED <<matched_pairs, used_actual>>
    /\ smIdx' = smIdx + 1
    /\ UNCHANGED <<smExpected, smActual, smOut, mcVars, scVars, p2Vars, plVars, auxVars>>

\* one iteration of "for exp_item in expected"
MatchVisit ==
    /\ smOut = None
    /\ smIdx <= Len(smExpected)
    /\ LET k == BestMatch(smExpected[smIdx], smActual, used_actual)
       IN  IF Truthy(smActual, k)
           THEN /\ matched_pairs' = matched_pairs \cup {<<smExpected[smIdx], smActual[k]>>}
                /\ used_actual' = used_actual \cup {smActual[k]}
           ELSE UNCHANGED <<matched_pairs, used_actual>>
    /\ smIdx' = smIdx + 1
    /\ UNCHANGED <<smExpected, smActual, smOut, mcVars, scVars, p2Vars, plVars, auxVars>>

\* the loop is over: the caller derives the counts and the ratios; the legacy
\* ComponentMatcher is applied to the same two sets
MatchFinish ==
    /\ smOut = None
    /\ smIdx > Len(smExpected)
    /\ smOut' = [engine |-> ComponentMetricsOf(Cardinality(matched_pairs),
                                                Len(smExpected), Len(smActual)),
                  matcher |-> SemanticMatch(SetOf(smExpected), SetOf(smActual))]
    /\ UNCHANGED <<smExpected, smActual, smIdx, matched_pairs, used_actual, mcVars, scVars,
                   p2Vars, plVars, auxVars>>

MatchNext == MatchVisit \/ MatchFinish

SpecMatch == MatchInit /\ [][MatchNext]_vars

AllOnes(m) ==
    m.precision = One /\ m.recall = One /\ m.f1_score = One /\ m.accuracy = One

\* C9: matching a set of keys against an identical set matches every item
\* (tp = |set|, fp = fn = 0, every ratio 1 for a non-empty set), whatever the
\* order in which the two sets are visited; for MetricsEngine._semantic_matching
\* and for ComponentMatcher._semantic_match.
C9_IdenticalSetsFullyMatch ==
    (smOut # None /\ SetOf(smExpected) = SetOf(smActual)) =>
        /\ smOut.engine.true_positives = Len(smExpected)
        /\ smOut.engine.false_positives = 0
        /\ smOut.engine.false_negatives = 0
        /\ (Len(smExpected) > 0 => AllOnes(smOut.engine))
        /\ smOut.matcher.true_positives = SetOf(smExpected)
        /\ smOut.matcher.false_positives = {}
        /\ smOut.matcher.false_negatives = {}

\* a finished matching of a three-key set against itself, visited in another
\* order, in which some key was paired with a key other than itself
C9_Witness ==
    /\ smOut # None
    /\ SetOf(smExpected) = SetOf(smActual)
    /\ Len(smExpected) = 3
    /\ smExpected # smActual
    /\ \E p \in matched_pairs : p[1] # p[2]

(***************************************************************************)
(* SpecMatcher: the legacy ComponentMatcher on two lists of components.    *)
(* The lists a ComparisonResult holds come from sets and are sets here.    *)
(***************************************************************************)
MaxNames == 2

StrUserPadded == <<SP, 47, 19, 5, 18, SP>>
\* "-" (code 59)
StrHyphen == <<59>>

\* component names: a name, its lower-case and its padded variants, and two
\* other names
NameUniverse == {StrUser, StrUserLower, StrUserPadded, StrLogin, StrOwner}

NameLists(n) == UNION {[1..k -> NameUniverse] : k \in 0..n}

\* {actor.name.lower().strip() for actor in actors}
NameKeys(components) == {Strip(Lower(components[i].name)) : i \in DOMAIN components}

\* f"{rel.source.lower()}-{rel.relationship_type.lower()}-{rel.target.lower()}"
MatcherRelationshipKey(rel) ==
    Lower(rel.source) \o StrHyphen \o Lower(rel.relationship_type) \o StrHyphen
        \o Lower(rel.target)

RelationshipKeys(relationships) ==
    {MatcherRelationshipKey(relationships[i]) : i \in DOMAIN relationships}

ComparisonResult(component_type, m) ==
    [component_type |-> component_type, true_positives |-> m.true_positives,
     false_positives |-> m.false_positives, false_negatives |-> m.false_negatives]

\* ComponentMatcher.match_actors
MatchActors(expected_actors, actual_actors) ==
    ComparisonResult("actor", SemanticMatch(NameKeys(expected_actors), NameKeys(actual_actors)))

\* ComponentMatcher.match_use_cases
MatchUseCases(expected_use_cases, actual_use_cases) ==
    ComparisonResult("use_case",
                     SemanticMatch(NameKeys(expected_use_cases), NameKeys(actual_use_cases)))

\* ComponentMatcher.match_relationships
MatchRelationships(expected_relationships, actual_relationships) ==
    ComparisonResult("relationship",
                     SemanticMatch(RelationshipKeys(expected_relationships),
                                   RelationshipKeys(actual_relationships)))

\* the components with the given names, and the relationships that lead from
\* them to one use case
Named(names) == [i \in DOMAIN names |-> [name |-> names[i]]]

RelationshipsFrom(names) ==
    [i \in DOMAIN names |->
        [source |-> names[i], target |-> StrLogin, relationship_type |-> StrAssociation]]

MatcherInit ==
    /\ smExpected \in NameLists(MaxNames)
    /\ smActual \in NameLists(MaxNames)
    /\ smIdx = 0
    /\ matched_pairs = {}
    /\ used_actual = {}
    /\ smOut = None
    /\ McIdle
    /\ ScIdle
    /\ P2Idle
    /\ PlIdle
    /\ AuxIdle

\* the three matchers applied to components with the expected and the actual
\* names
MatchComponents ==
    /\ smOut = None
    /\ smOut' = [actors |-> MatchActors(Named(smExpected), Named(smActual)),
                 use_cases |-> MatchUseCases(Named(smExpected), Named(smActual)),
                 relationships |-> MatchRelationships(RelationshipsFrom(smExpected),
                                                      RelationshipsFrom(smActual))]
    /\ UNCHANGED <<smExpected, smActual, smIdx, matched_pairs, used_actual, mcVars, scVars,
                   p2Vars, plVars, auxVars>>

MatcherNext == MatchComponents

SpecMatcher == MatcherInit /\ [][MatcherNext]_vars

\* the comparison result r splits the expected keys E and the actual keys A
ExactSplit(r, E, A) ==
    /\ r.true_positives = {k \in E : k \in A}
    /\ r.false_positives = {k \in A : k \notin E}
    /\ r.false_negatives = {k \in E : k \notin A}
    /\ r.true_positives \cap r.false_positives = {}
    /\ r.true_positives \cap r.false_negatives = {}
    /\ r.false_positives \cap r.false_negatives = {}
    /\ r.true_positives \cup r.false_negatives = E
    /\ r.true_positives \cup r.false_positives = A

\* the lower-cased, stripped names of a list
LoweredNames(names) == {Strip(Lower(names[i])) : i \in DOMAIN names}

\* the lower-cased source-type-target keys of the relationships from the names
LoweredLinks(names) ==
    {Lower(names[i] \o StrHyphen \o StrAssociation \o StrHyphen \o StrLogin) :
        i \in DOMAIN names}

\* C11: match_actors, match_use_cases and match_relationships compare the
\* lower-cased keys exactly: true_positives is the intersection of the expected
\* and the actual keys, false_positives the actual keys that are not expected,
\* false_negatives the expected keys that are not actual; the three are
\* pairwise disjoint, tp with fn is the expected key set and tp with fp the
\* actual key set.
C11_MatchersSplitKeySets ==
    smOut # None =>
        /\ ExactSplit(smOut.actors, LoweredNames(smExpected), LoweredNames(smActual))
        /\ ExactSplit(smOut.use_cases, LoweredNames(smExpected), LoweredNames(smActual))
        /\ ExactSplit(smOut.relationships, LoweredLinks(smExpected), LoweredLinks(smActual))

\* a comparison of two lists that share no name as written, whose actor
\* result has a matched, an extra and a missing key
C11_Witness ==
    /\ smOut # None
    /\ SetOf(smExpected) \cap SetOf(smActual) = {}
    /\ smOut.actors.true_positives # {}
    /\ smOut.actors.false_positives # {}
    /\ smOut.actors.false_negatives # {}
    /\ smOut.relationships.true_positives = {}

(***************************************************************************)
(* SpecLegacy: ScoringPipeline.process_scoring_request, one step per       *)
(* stage.  Its two extraction stages are placeholders that return empty    *)
(* diagrams.                                                               *)
(***************************************************************************)
\* the texts of a legacy request: empty, whitespace-only and proper ones
LegacyTexts == {<<>>, <<SP>>, <<SP, SP>>, StrLogin, StrUser, StrUserPadded}

\* no custom weights (None and the empty dict alike), or a dict that overrides
\* the weight of one component type
LegacyWeightChoices == {{}, {<<"actor", One>>}}

\* ScoringPipeline.default_weights
LegacyDefaultWeights ==
    {<<"actor", R(3, 10)>>, <<"use_case", R(5, 10)>>, <<"relationship", R(2, 10)>>}

ValueError(message) == [exception |-> "ValueError", message |-> message]

\* a variant of the validation that looks at the code only
ValidateCodeOnly(req) ==
    IF Strip(req.plantuml_code) = <<>> THEN ValueError("PlantUML code cannot be empty")
    ELSE None

\* ScoringPipeline._validate_request: the error it raises, or None
ValidateRequest(req) ==
    IF Strip(req.plantuml_code) = <<>> THEN ValueError("PlantUML code cannot be empty")
    ELSE IF Strip(req.description) = <<>>
         THEN ValueError("Problem description cannot be empty")
         ELSE None

\* _extract_expected_components and _extract_actual_components
PlaceholderDiagram == [actors |-> <<>>, use_cases |-> <<>>, relationships |-> <<>>]

\* one entry of _compare_components
ComponentScore(comparison) ==
    [component_type |-> comparison.component_type,
     metrics |-> LegacyCalculateMetrics(Cardinality(comparison.true_positives),
                                        Cardinality(comparison.false_positives),
                                        Cardinality(comparison.false_negatives)),
     comparison |-> comparison,
     weight |-> DictGet(LegacyDefaultWeights, comparison.component_type, One)]

\* ScoringPipeline._compare_components
CompareComponents(expected, actual) ==
    <<ComponentScore(MatchActors(expected.actors, actual.actors)),
      ComponentScore(MatchUseCases(expected.use_cases, actual.use_cases)),
      ComponentScore(MatchRelationships(expected.relationships, actual.relationships))>>

RECURSIVE WeightedSum(_, _, _)
WeightedSum(component_metrics, weights, f) ==
    IF component_metrics = <<>> \/ weights = <<>> THEN Zero
    ELSE RAdd(RMul(Head(component_metrics)[f], Head(weights)),
              WeightedSum(Tail(component_metrics), Tail(weights), f))

RECURSIVE SumOf(_)
SumOf(weights) == IF weights = <<>> THEN Zero ELSE RAdd(Head(weights), SumOf(Tail(weights)))

\* MetricsCalculator.aggregate_metrics
LegacyAggregateMetrics(component_metrics, weights) ==
    LET zeros == [precision |-> Zero, recall |-> Zero, f1_score |-> Zero, accuracy |-> Zero]
        total_weight == SumOf(weights)
    IN  IF component_metrics = <<>> \/ weights = <<>> THEN zeros
        ELSE IF total_weight = Zero THEN zeros
        ELSE [f \in {"precision", "recall", "f1_score", "accuracy"} |->
                 RDiv(WeightedSum(component_metrics, weights, f), total_weight)]

\* MetricsCalculator.calculate_final_score with the default scale
LegacyCalculateFinalScore(overall_metrics) ==
    LET score == RAdd(RAdd(RMul(overall_metrics.f1_score, R(4, 10)),
                           RMul(overall_metrics.accuracy, R(3, 10))),
                      RAdd(RMul(overall_metrics.precision, R(2, 10)),
                           RMul(overall_metrics.recall, R(1, 10))))
    IN  RMin(RMul(score, R(10, 1)), R(10, 1))

\* ScoringPipeline._calculate_overall_score
CalculateOverallScore(component_scores, weights) ==
    LET metrics_list == [i \in DOMAIN component_scores |-> component_scores[i].metrics]
        weights_list == [i \in DOMAIN component_scores |->
                            DictGet(weights, component_scores[i].component_type,
                                    component_scores[i].weight)]
        overall_metrics == LegacyAggregateMetrics(metrics_list, weights_list)
    IN  [final_score |-> LegacyCalculateFinalScore(overall_metrics),
         component_scores |-> component_scores,
         overall_metrics |-> overall_metrics]

LegacyInit ==
    /\ lgPc = "validate"
    /\ lgRequest \in [plantuml_code : LegacyTexts, description : LegacyTexts,
                      scoring_weights : LegacyWeightChoices]
    /\ lgSteps = <<>>
    /\ lgOut = None
    /\ McIdle
    /\ SmIdle
    /\ ScIdle
    /\ P2Idle
    /\ PlIdle
    /\ GwIdle
    /\ NvIdle
    /\ PrIdle
    /\ ExIdle

LegacyUnchanged == UNCHANGED <<mcVars, smVars, scVars, p2Vars, plVars, gwVars, nvVars, prVars, exVars>>

\* step 1: the validation raises, or the request goes on
LegacyValidate ==
    /\ lgPc = "validate"
    /\ LET e == ValidateRequest(lgRequest)
       IN  IF e # None
           THEN lgPc' = "raised" /\ lgOut' = e
           ELSE lgPc' = "extract" /\ lgOut' = lgOut
    /\ UNCHANGED <<lgRequest, lgSteps>>
    /\ LegacyUnchanged

\* step 2: the two extractions
LegacyExtract ==
    /\ lgPc = "extract"
    /\ lgPc' = "compare"
    /\ lgOut' = [expected_diagram |-> PlaceholderDiagram, actual_diagram |-> PlaceholderDiagram]
    /\ lgSteps' = lgSteps \o <<"extract_expected", "extract_actual">>
    /\ UNCHANGED lgRequest
    /\ LegacyUnchanged

\* step 3: the comparison
LegacyCompare ==
    /\ lgPc = "compare"
    /\ lgPc' = "score"
    /\ lgOut' = [component_scores |->
                    CompareComponents(lgOut.expected_diagram, lgOut.actual_diagram)]
    /\ lgSteps' = Append(lgSteps, "compare")
    /\ UNCHANGED lgRequest
    /\ LegacyUnchanged

\* step 4: the overall score
LegacyScore ==
    /\ lgPc = "score"
    /\ lgPc' = "feedback"
    /\ lgOut' = [score |->
                    CalculateOverallScore(lgOut.component_scores,
                                          IF lgRequest.scoring_weights = {}
                                          THEN LegacyDefaultWeights
                                          ELSE lgRequest.scoring_weights)]
    /\ lgSteps' = Append(lgSteps, "score")
    /\ UNCHANGED lgRequest
    /\ LegacyUnchanged

\* step 5: the feedback placeholder, then the ScoringResult is returned
LegacyFeedback ==
    /\ lgPc = "feedback"
    /\ lgPc' = "returned"
    /\ lgOut' = [score |-> lgOut.score, feedback |-> <<>>, llm_model_used |-> "placeholder"]
    /\ lgSteps' = Append(lgSteps, "feedback")
    /\ UNCHANGED lgRequest
    /\ LegacyUnchanged

LegacyNext ==
    LegacyValidate \/ LegacyExtract \/ LegacyCompare \/ LegacyScore \/ LegacyFeedback

SpecLegacy == LegacyInit /\ [][LegacyNext]_vars

LegacyBlankRequest ==
    Strip(lgRequest.plantuml_code) = <<>> \/ Strip(lgRequest.description) = <<>>

\* C12: process_scoring_request raises ValueError when the PlantUML code or
\* the problem description is empty or whitespace-only, before any extraction,
\* comparison, scoring or feedback step runs: such a request never gets past
\* the validation, and an invocation that raised ran no step.
C12_BlankLegacyRequestRaisesFirst ==
    /\ (LegacyBlankRequest /\ lgPc # "validate") =>
           /\ lgPc = "raised"
           /\ lgOut.exception = "ValueError"
           /\ lgSteps = <<>>
    /\ (lgPc = "raised" => lgSteps = <<>> /\ LegacyBlankRequest)

\* a request with proper code and a whitespace-only description was rejected
C12_Witness ==
    /\ lgPc = "raised"
    /\ Strip(lgRequest.plantuml_code) # <<>>
    /\ lgRequest.description = <<SP, SP>>
    /\ lgOut = ValueError("Problem description cannot be empty")

(***************************************************************************)
(* Spec: a grading request through the endpoints and process_diagram.      *)
(* One generation round-trip is one step.  A list item is a record with    *)
(* its Python type and its text; an empty dict is None.                    *)
(***************************************************************************)
MaxRetries == 2

\* an item of a warnings list: a plain string or a ValidationIssue
Str(text) == [type |-> "str", text |-> text]

Issue(description) == [type |-> "ValidationIssue", text |-> description]

\* the constructor of a model whose field of a list type holds another item
ValidationError == [exception |-> "ValidationError"]

\* pydantic's check of a field declared list[item_type]
ValidList(item_type, items) == \A i \in DOMAIN items : items[i].type = item_type

\* the ways a generation round-trip can end: generate_response returns a text
\* holding the structured block asked for, raises, returns a text without the
\* block, or returns a block that decodes to the wrong shape
GenerationKinds == {"text", "transport_failure", "malformed", "wrong_shape"}

\* the steps of the Phase 1 chain, in the order of _execute_normalization_chain
ChainSteps ==
    <<"convention_analysis", "difference_detection", "code_normalization", "validation">>

\* the steps whose parser builds models from decoded JSON; it catches
\* JSONDecodeError, KeyError and ValueError only
JsonSteps ==
    {"convention_analysis", "difference_detection", "error_analysis", "feedback_generation"}

\* does the step raise on a round-trip of this kind
StepRaises(step_name, kind) ==
    \/ kind = "transport_failure"
    \/ kind = "wrong_shape" /\ step_name \in JsonSteps

\* the texts a code normalization response can carry
NormalizedCodes(kind) ==
    IF kind = "text" THEN {request.student_plantuml, request.teacher_plantuml}
    ELSE {<<>>}

\* CodeNormalizer._parse_normalization_result: the extracted code, or the
\* original text when the response holds none
ParseNormalizationResult(code, original_plantuml) ==
    [normalized_plantuml |-> IF code = <<>> THEN original_plantuml ELSE code]

\* the issue lists a validation response can carry
ResponseIssues(kind) ==
    IF kind = "text" THEN {<<>>, <<Issue("logic changed")>>} ELSE {<<>>}

\* NormalizationValidator._extract_confidence_field
ExtractConfidenceField(kind) == IF kind = "text" THEN R(9, 10) ELSE R(4, 5)

\* NormalizationValidator._validate_syntax: a blank text has neither the
\* opening nor the closing directive
ValidateSyntax(plantuml_code) ==
    IF plantuml_code = <<>>
    THEN <<Issue("PlantUML code should start with @startuml"),
           Issue("PlantUML code should end with @enduml")>>
    ELSE <<>>

\* NormalizationValidator.validate_normalization
ValidateNormalization(normalization_result, kind, issues) ==
    [validated_plantuml |-> normalization_result.normalized_plantuml,
     issues |-> ValidateSyntax(normalization_result.normalized_plantuml) \o issues,
     confidence |-> ExtractConfidenceField(kind)]

\* a variant of the constructor that accepts any list of warnings
NormalizationChainResultUnvalidated(success, normalized_plantuml, original_plantuml, diagram_type, retries, final_confidence, chain_warns) ==
    [success |-> success, normalized_plantuml |-> normalized_plantuml,
     original_plantuml |-> original_plantuml, diagram_type |-> diagram_type,
     retries_used |-> retries, final_confidence |-> final_confidence,
     warnings |-> chain_warns]

\* the constructor of NormalizationChainResult: warnings is list[ValidationIssue]
NormalizationChainResult(success, normalized_plantuml, original_plantuml, diagram_type, retries, final_confidence, chain_warns) ==
    IF ValidList("ValidationIssue", chain_warns)
    THEN [success |-> success, normalized_plantuml |-> normalized_plantuml,
          original_plantuml |-> original_plantuml, diagram_type |-> diagram_type,
          retries_used |-> retries, final_confidence |-> final_confidence,
          warnings |-> chain_warns]
    ELSE ValidationError

\* ErrorAnalyzer._create_fallback_error_analysis on a response that names no
\* error keyword
FallbackErrorAnalysis ==
    [total_errors |-> 0,
     severity_breakdown |-> {<<"low", 0>>, <<"medium", 0>>, <<"high", 0>>, <<"critical", 0>>},
     confidence |-> R(3, 10),
     error_categories |-> {}]

\* the error analyses ErrorAnalyzer._parse_error_analysis can return
ErrorAnalyses(kind) ==
    IF kind = "text" THEN {NoErrors, ManyCriticalErrors} ELSE {FallbackErrorAnalysis}

\* FeedbackGenerator._create_fallback_feedback
FallbackFeedback ==
    [strengths |-> <<"Your diagram shows understanding of basic UML concepts">>,
     confidence |-> R(1, 2)]

\* the feedback results FeedbackGenerator._parse_feedback_response can return
FeedbackResults(kind) ==
    IF kind = "text" THEN {NoStrengths, TwoStrengths} ELSE {FallbackFeedback}

\* PhaseThreeOrchestrator.generate_feedback_and_score after its two analysis
\* steps returned
PhaseThreeSuccess(metrics, analysis, feedback, diagram_type, custom_weights) ==
    LET score_breakdown == CalculateFinalScore(metrics, analysis, feedback, custom_weights)
        confidence == RMin(analysis.confidence, feedback.confidence)
        low_confidence ==
            IF RLt(confidence, R(7, 10))
            THEN <<Str("Analysis confidence is below 70% - results may be less reliable")>>
            ELSE <<>>
        low_score ==
            IF analysis.total_errors = 0 /\ RLt(score_breakdown.final_score, R(8, 1))
            THEN <<Str("No errors detected but score is low - may indicate analysis issues")>>
            ELSE <<>>
    IN  [success |-> TRUE, diagram_type |-> diagram_type,
         score_breakdown |-> score_breakdown,
         final_score |-> score_breakdown.final_score,
         grade_letter |-> score_breakdown.grade_letter,
         summary |-> "feedback summary",
         confidence |-> confidence,
         warnings |-> low_confidence \o low_score]

\* PhaseThreeOrchestrator.generate_feedback_and_score when a step raised
PhaseThreeFailure(diagram_type) ==
    [success |-> FALSE, diagram_type |-> diagram_type, score_breakdown |-> None,
     final_score |-> Zero, grade_letter |-> "F",
     summary |-> "Feedback generation failed. Please review your diagram manually.",
     confidence |-> Zero,
     warnings |-> <<Str("Phase 3 failed")>>]

\* the constructor of PipelineResult: warnings and errors are list[str]; the
\* errors list only ever receives strings
PipelineResult(success, diagram_type, p1, p2, p3, final_score, grade_letter, feedback_summary, overall_confidence, result_warnings, result_errors) ==
    IF ValidList("str", result_warnings)
    THEN [success |-> success, diagram_type |-> diagram_type,
          phase_one_result |-> p1, phase_two_result |-> p2, phase_three_result |-> p3,
          final_score |-> final_score, grade_letter |-> grade_letter,
          feedback_summary |-> feedback_summary,
          overall_confidence |-> overall_confidence,
          warnings |-> result_warnings, errors |-> result_errors]
    ELSE ValidationError

\* the result built by process_diagram's exception handler
PipelineFailureResult(diagram_type, result_warnings, result_errors, e) ==
    PipelineResult(FALSE, diagram_type, None, None, None, Zero, "F",
                   "Pipeline processing failed. Please check your diagram and try again.",
                   Zero, result_warnings, Append(result_errors, e))

\* a variant of the conversion that passes the items on as they are
WarningsUnconverted(chain_warns) == chain_warns

\* the conversion of Phase 1's warnings in process_diagram: an issue gives
\* its description, anything else its str()
WarningDescriptions(chain_warns) == [i \in DOMAIN chain_warns |-> Str(chain_warns[i].text)]

\* ThreePhasePipeline._calculate_overall_confidence: a phase result without
\* a field named confidence supplies none
CalculateOverallConfidence(p1, p2, p3) ==
    LET c1 == IF "confidence" \in DOMAIN p1 /\ RLt(Zero, p1.confidence)
              THEN <<p1.confidence>> ELSE <<>>
        c2 == IF "success" \in DOMAIN p2 /\ p2.success THEN <<R(9, 10)>> ELSE <<>>
        c3 == IF "confidence" \in DOMAIN p3 /\ RLt(Zero, p3.confidence)
              THEN <<p3.confidence>> ELSE <<>>
        confidences == c1 \o c2 \o c3
        RECURSIVE Sum(_)
        Sum(cs) == IF cs = <<>> THEN Zero ELSE RAdd(Head(cs), Sum(Tail(cs)))
    IN  IF confidences = <<>> THEN R(1, 2)
        ELSE RDiv(Sum(confidences), R(Len(confidences), 1))

\* the statements the requests of a diagram type are written with
RequestStatements(diagram_type) ==
    IF diagram_type = USE_CASE THEN {"parens", "usecase_quoted"}
    ELSE IF diagram_type = CLASS THEN {"class_bare", "link"}
    ELSE {"participant", "message"}

\* the diagram texts of a request: blank, or at most n statements
RequestTexts(diagram_type, n) ==
    UNION {[1..k -> RequestStatements(diagram_type)] : k \in 0..n}

\* the teacher's reference text of a request: blank, or one statement
ReferenceTexts(diagram_type) ==
    {<<>>} \cup {<<statement>> : statement \in RequestStatements(diagram_type)}

\* a whitespace-only problem text and a proper one
ProblemDescriptions == {<<SP>>, StrLogin}

Requests ==
    UNION {[student_plantuml : RequestTexts(t, MaxStudentStatements),
            teacher_plantuml : ReferenceTexts(t),
            problem_description : ProblemDescriptions,
            diagram_type : {t},
            custom_weights : WeightChoices] : t \in DiagramTypes}

PipelineInit ==
    /\ pc = "request"
    /\ request \in Requests
    /\ config \in [max_retries : 0..MaxRetries]
    /\ attempt = 0 /\ step_index = 0 /\ retries_used = 0
    /\ chain_warnings = <<>> /\ chain_results = None /\ chain_returns = 0
    /\ calls = [phase_one |-> 0, phase_three |-> 0]
    /\ phase_one = None /\ phase_two = None /\ phase_three_errors = None
    /\ phase_three = None
    /\ pipeline_warnings = <<>> /\ pipeline_errors = <<>>
    /\ pipeline_result = None /\ raised = FALSE
    /\ slept = 0
    /\ McIdle
    /\ SmIdle
    /\ ScIdle
    /\ P2Idle
    /\ AuxIdle

\* process_diagram's exception handler: it returns the failure result, unless
\* building that result raises in its turn
Aborted(result_warnings, result_errors, e) ==
    LET r == PipelineFailureResult(request.diagram_type, result_warnings, result_errors, e)
    IN  /\ pc' = "done"
        /\ pipeline_warnings' = result_warnings
        /\ pipeline_errors' = result_errors
        /\ pipeline_result' = IF r = ValidationError THEN None ELSE r
        /\ raised' = (r = ValidationError)

\* process_diagram goes on to its next phase
Continue(next_pc, result_warnings, result_errors) ==
    /\ pc' = next_pc
    /\ pipeline_warnings' = result_warnings
    /\ pipeline_errors' = result_errors
    /\ UNCHANGED <<pipeline_result, raised>>

\* process_diagram after Phase 3 returned: the fallback score when Phase 3
\* failed, the overall confidence and the result
Completed(p1, p2, p3) ==
    LET failed == ~p3.success
        result_errors ==
            IF failed THEN Append(pipeline_errors, "Phase 3 feedback generation failed")
            ELSE pipeline_errors
        result_warnings == pipeline_warnings \o p3.warnings
        final_score ==
            IF failed THEN ExtractorCalculateFinalScore(p2.metrics) ELSE p3.final_score
        grade_letter ==
            IF failed THEN PipelineGetLetterGrade(final_score) ELSE p3.grade_letter
        feedback_summary ==
            IF failed THEN "Automated feedback generation failed. Please review manually."
            ELSE p3.summary
        r == PipelineResult(TRUE, request.diagram_type, p1, p2, p3, final_score,
                            grade_letter, feedback_summary,
                            CalculateOverallConfidence(p1, p2, p3),
                            result_warnings, result_errors)
    IN  IF r = ValidationError
        THEN Aborted(result_warnings, result_errors, "ValidationError")
        ELSE /\ pc' = "done"
             /\ pipeline_warnings' = result_warnings
             /\ pipeline_errors' = result_errors
             /\ pipeline_result' = r
             /\ raised' = FALSE

\* the text is empty once stripped
Blank(text) == Strip(text) = <<>>

\* process_diagram up to the first generation round-trip of Phase 1
ProcessDiagram ==
    /\ attempt' = 0
    /\ step_index' = 1
    /\ retries_used' = 0
    /\ chain_warnings' = <<>>
    /\ chain_results' = None
    /\ chain_returns' = 0
    /\ slept' = 0
    /\ Continue("phase1", <<>>, <<>>)
    /\ UNCHANGED <<request, config, calls, phase_one, phase_two, phase_three_errors,
                   phase_three, mcVars, smVars, scVars, p2Vars, auxVars>>

\* the endpoint score_diagram: it validates the request, then calls
\* process_diagram
ScoreDiagram ==
    /\ pc = "request"
    /\ IF \/ request.student_plantuml = <<>>
          \/ request.teacher_plantuml = <<>>
          \/ Blank(request.problem_description)
       THEN /\ pc' = "rejected"
            /\ UNCHANGED <<request, config, chainVars, calls, phase_one, phase_two,
                           phase_three_errors, phase_three, pipeline_warnings,
                           pipeline_errors, pipeline_result, raised, slept,
                           mcVars, smVars, scVars, p2Vars, auxVars>>
       ELSE ProcessDiagram

\* the endpoint score_diagrams_batch on a batch of one request: it calls
\* process_diagram
ScoreDiagramsBatch ==
    /\ pc = "request"
    /\ ProcessDiagram

\* process_diagram after normalize_conventions returned p1
PhaseOneReturned(p1) ==
    /\ phase_one' = p1
    /\ IF ~p1.success
       THEN \* the result has no field named errors
            IF "errors" \in DOMAIN p1
            THEN Continue("phase2", pipeline_warnings \o p1.warnings,
                          pipeline_errors \o p1.errors)
            ELSE Aborted(pipeline_warnings, pipeline_errors, "AttributeError")
       ELSE Continue("phase2", pipeline_warnings \o WarningDescriptions(p1.warnings),
                     pipeline_errors)

\* a variant of the handler whose next attempt resumes at the step that failed
\* and keeps the results obtained so far
AttemptFailedResuming ==
    /\ retries_used' = retries_used + 1
    /\ chain_results' = chain_results
    /\ IF attempt < config.max_retries
       THEN /\ chain_warnings' = Append(chain_warnings, Str("Retry"))
            /\ slept' = 2
            /\ attempt' = attempt + 1
            /\ step_index' = step_index
            /\ UNCHANGED <<pc, phase_one, pipeline_warnings, pipeline_errors,
                           pipeline_result, raised>>
       ELSE /\ UNCHANGED <<chain_warnings, attempt, step_index>>
            /\ slept' = 0
            /\ LET r == NormalizationChainResult(
                            FALSE, request.student_plantuml, request.student_plantuml,
                            request.diagram_type, retries_used + 1, Zero,
                            Append(chain_warnings, Str("Normalization failed")))
               IN  IF r = ValidationError
                   THEN /\ phase_one' = phase_one
                        /\ Aborted(pipeline_warnings, pipeline_errors, "ValidationError")
                   ELSE PhaseOneReturned(r)

\* a variant of the handler that allows one attempt more than max_retries + 1
AttemptFailedOnceMore ==
    /\ retries_used' = retries_used + 1
    /\ chain_results' = None
    /\ IF attempt < config.max_retries + 1
       THEN /\ chain_warnings' = Append(chain_warnings, Str("Retry"))
            /\ slept' = 2
            /\ attempt' = attempt + 1
            /\ step_index' = 1
            /\ UNCHANGED <<pc, phase_one, pipeline_warnings, pipeline_errors,
                           pipeline_result, raised>>
       ELSE /\ UNCHANGED <<chain_warnings, attempt, step_index>>
            /\ slept' = 0
            /\ LET r == NormalizationChainResult(
                            FALSE, request.student_plantuml, request.student_plantuml,
                            request.diagram_type, retries_used + 1, Zero,
                            Append(chain_warnings, Str("Normalization failed")))
               IN  IF r = ValidationError
                   THEN /\ phase_one' = phase_one
                        /\ Aborted(pipeline_warnings, pipeline_errors, "ValidationError")
                   ELSE PhaseOneReturned(r)

\* normalize_conventions' handler of a failed attempt: another attempt, or
\* the failure result once the retries are used up
AttemptFailed ==
    /\ retries_used' = retries_used + 1
    /\ chain_results' = None
    /\ IF attempt < config.max_retries
       THEN /\ chain_warnings' = Append(chain_warnings, Str("Retry"))
            /\ slept' = 2
            /\ attempt' = attempt + 1
            /\ step_index' = 1
            /\ UNCHANGED <<pc, phase_one, pipeline_warnings, pipeline_errors,
                           pipeline_result, raised>>
       ELSE /\ UNCHANGED <<chain_warnings, attempt, step_index>>
            /\ slept' = 0
            /\ LET r == NormalizationChainResult(
                            FALSE, request.student_plantuml, request.student_plantuml,
                            request.diagram_type, retries_used + 1, Zero,
                            Append(chain_warnings, Str("Normalization failed")))
               IN  IF r = ValidationError
                   THEN /\ phase_one' = phase_one
                        /\ Aborted(pipeline_warnings, pipeline_errors, "ValidationError")
                   ELSE PhaseOneReturned(r)

\* one generation round-trip of the Phase 1 chain and what follows it up to
\* the next round-trip
PhaseOneCall ==
    /\ pc = "phase1"
    /\ calls' = [calls EXCEPT !.phase_one = @ + 1]
    /\ \E kind \in GenerationKinds :
       LET step_name == ChainSteps[step_index]
       IN  IF StepRaises(step_name, kind)
           THEN AttemptFailed /\ UNCHANGED chain_returns
           ELSE IF step_name = "code_normalization"
           THEN \E code \in NormalizedCodes(kind) :
                    /\ chain_results' = ParseNormalizationResult(code, request.student_plantuml)
                    /\ step_index' = step_index + 1
                    /\ slept' = 1
                    /\ UNCHANGED <<attempt, retries_used, chain_warnings, chain_returns, pc, phase_one,
                                   pipeline_warnings, pipeline_errors, pipeline_result,
                                   raised>>
           ELSE IF step_name = "validation"
           THEN \E issues \in ResponseIssues(kind) :
                    LET validation_result ==
                            ValidateNormalization(chain_results, kind, issues)
                        r == NormalizationChainResult(
                                 TRUE, validation_result.validated_plantuml,
                                 request.student_plantuml, request.diagram_type,
                                 retries_used, validation_result.confidence,
                                 chain_warnings \o validation_result.issues)
                    IN  /\ chain_returns' = chain_returns + 1
                        /\ IF r = ValidationError
                           THEN AttemptFailed
                           ELSE /\ PhaseOneReturned(r)
                                /\ slept' = 0
                                /\ UNCHANGED <<attempt, step_index, retries_used,
                                               chain_warnings, chain_results>>
           ELSE /\ step_index' = step_index + 1
                /\ slept' = 1
                /\ UNCHANGED <<attempt, retries_used, chain_warnings, chain_results,
                               chain_returns, pc,
                               phase_one, pipeline_warnings, pipeline_errors,
                               pipeline_result, raised>>
    /\ UNCHANGED <<request, config, phase_two, phase_three_errors, phase_three,
                   mcVars, smVars, scVars, p2Vars, auxVars>>

\* the text Phase 2 is given
NormalizedCode ==
    IF phase_one.success THEN phase_one.normalized_plantuml ELSE request.student_plantuml

\* a variant of the check that never finds Phase 2 failed
PhaseTwoNeverFailed(p2) == FALSE

\* process_diagram's check of Phase 2's result
PhaseTwoFailed(p2) == ~p2.success

\* Phase 2 and process_diagram's check of its result
PhaseTwo ==
    /\ pc = "phase2"
    /\ \E fault \in BOOLEAN :
       \E p2 \in ExtractAndCalculateMetrics(NormalizedCode, request.teacher_plantuml,
                                             request.diagram_type, fault) :
           /\ phase_two' = p2
           /\ IF PhaseTwoFailed(p2)
              THEN Aborted(pipeline_warnings \o p2.warnings, pipeline_errors \o p2.errors,
                           "Phase 2 extraction failed - cannot proceed to Phase 3")
              ELSE Continue("phase3_errors", pipeline_warnings \o p2.warnings,
                            pipeline_errors)
    /\ UNCHANGED <<request, config, chainVars, calls, phase_one, phase_three_errors,
                   phase_three, slept, mcVars, smVars, scVars, p2Vars, auxVars>>

\* Phase 3's first generation round-trip: the error analysis
PhaseThreeErrorAnalysis ==
    /\ pc = "phase3_errors"
    /\ calls' = [calls EXCEPT !.phase_three = @ + 1]
    /\ \E kind \in GenerationKinds :
           IF StepRaises("error_analysis", kind)
           THEN /\ phase_three' = PhaseThreeFailure(request.diagram_type)
                /\ Completed(phase_one, phase_two, PhaseThreeFailure(request.diagram_type))
                /\ UNCHANGED phase_three_errors
           ELSE \E analysis \in ErrorAnalyses(kind) :
                    /\ phase_three_errors' = analysis
                    /\ Continue("phase3_feedback", pipeline_warnings, pipeline_errors)
                    /\ UNCHANGED phase_three
    /\ slept' = 0
    /\ UNCHANGED <<request, config, chainVars, phase_one, phase_two,
                   mcVars, smVars, scVars, p2Vars, auxVars>>

\* Phase 3's second generation round-trip: the feedback, then the score and
\* process_diagram's result
PhaseThreeFeedback ==
    /\ pc = "phase3_feedback"
    /\ calls' = [calls EXCEPT !.phase_three = @ + 1]
    /\ \E kind \in GenerationKinds :
       \E p3 \in IF StepRaises("feedback_generation", kind)
                 THEN {PhaseThreeFailure(request.diagram_type)}
                 ELSE {PhaseThreeSuccess(phase_two.metrics, phase_three_errors, feedback,
                                         request.diagram_type, request.custom_weights) :
                           feedback \in FeedbackResults(kind)} :
           /\ phase_three' = p3
           /\ Completed(phase_one, phase_two, p3)
    /\ slept' = 0
    /\ UNCHANGED <<request, config, chainVars, phase_one, phase_two, phase_three_errors,
                   mcVars, smVars, scVars, p2Vars, auxVars>>

Next ==
    \/ ScoreDiagram
    \/ ScoreDiagramsBatch
    \/ PhaseOneCall
    \/ PhaseTwo
    \/ PhaseThreeErrorAnalysis
    \/ PhaseThreeFeedback

Spec == PipelineInit /\ [][Next]_vars

\* normalize_conventions used up its retries: every attempt failed
PhaseOneExhausted == pc # "request" /\ retries_used = config.max_retries + 1

\* C1: when Phase 1 ends in failure after exhausting its retries,
\* process_diagram does not abort: it runs Phase 2 on the original student
\* text (and the run can still succeed).
C1_PhaseOneFailureContinues ==
    (pc = "done" /\ PhaseOneExhausted) =>
        /\ phase_two # None
        /\ NormalizedCode = request.student_plantuml

\* C2: when Phase 2 reports failure, process_diagram aborts: Phase 3 is never
\* invoked, and the result has success false, final_score 0.0, grade F and a
\* non-empty errors list.
C2_PhaseTwoFailureAborts ==
    (phase_two # None /\ ~phase_two.success) =>
        /\ pc = "done"
        /\ phase_three_errors = None
        /\ phase_three = None
        /\ calls.phase_three = 0
        /\ ~raised
        /\ pipeline_result # None
        /\ pipeline_result.success = FALSE
        /\ pipeline_result.final_score = Zero
        /\ pipeline_result.grade_letter = "F"
        /\ Len(pipeline_result.errors) > 0

\* a run whose Phase 1 succeeded and whose Phase 2 reported failure: the
\* result carries Phase 2's error and the handler's
C2_Witness ==
    /\ pc = "done"
    /\ phase_one # None
    /\ phase_one.success
    /\ phase_two # None
    /\ ~phase_two.success
    /\ pipeline_result # None
    /\ Len(pipeline_result.errors) = 2

\* the weighted score of the aggregate metrics on the 10-point scale, with
\* the flat penalty for a low similarity
WeightedFallback(metrics) ==
    LET o == metrics.overall_metrics
        score == RMul(R(10, 1), RAdd(RAdd(RMul(R(3, 10), o.precision),
                                          RMul(R(3, 10), o.recall)),
                                     RMul(R(4, 10), o.f1_score)))
    IN  IF RLt(metrics.similarity_score, R(1, 2)) THEN RMul(score, R(8, 10)) ELSE score

ThresholdGrade(score) ==
    IF RLe(R(9, 1), score) THEN "A"
    ELSE IF RLe(R(8, 1), score) THEN "B"
    ELSE IF RLe(R(7, 1), score) THEN "C"
    ELSE IF RLe(R(6, 1), score) THEN "D"
    ELSE "F"

\* Phase 3 reported failure after Phases 1 and 2 completed
PhaseThreeFailedRun ==
    /\ pc = "done"
    /\ phase_three # None
    /\ ~phase_three.success

\* C3 as stated: when Phase 3 reports failure after Phases 1 and 2 completed,
\* the run ends with success true, final_score equal to
\* 10 x (0.3 precision + 0.3 recall + 0.4 F1) of the aggregate metrics
\* (x 0.8 when similarity_score < 0.5) rather than 0.0, and grade_letter the
\* threshold grade of that score.
C3_FallbackScoreAsStated ==
    PhaseThreeFailedRun =>
        /\ pipeline_result # None
        /\ pipeline_result.success
        /\ pipeline_result.final_score = WeightedFallback(phase_two.metrics)
        /\ pipeline_result.grade_letter = ThresholdGrade(pipeline_result.final_score)

\* C3 amended: when Phase 3 reports failure after Phases 1 and 2 completed,
\* the run ends with success true, final_score equal to that weighted score
\* rounded to two decimals, and grade_letter the threshold grade of the
\* rounded score.
C3_FallbackScoreRounded ==
    PhaseThreeFailedRun =>
        /\ ~raised
        /\ pipeline_result # None
        /\ pipeline_result.success
        /\ pipeline_result.final_score = Round2(WeightedFallback(phase_two.metrics))
        /\ pipeline_result.grade_letter = ThresholdGrade(pipeline_result.final_score)

\* a run whose Phase 3 failed on metrics of low similarity, with a fallback
\* score above 0 that rounding changed
C3_Witness ==
    /\ PhaseThreeFailedRun
    /\ pipeline_result # None
    /\ pipeline_result.success
    /\ RLt(phase_two.metrics.similarity_score, R(1, 2))
    /\ RLt(Zero, pipeline_result.final_score)
    /\ pipeline_result.final_score # WeightedFallback(phase_two.metrics)

\* one of the three texts of the request is blank
BlankRequest ==
    \/ request.student_plantuml = <<>>
    \/ request.teacher_plantuml = <<>>
    \/ Blank(request.problem_description)

\* a complete PipelineResult: the success flag, the three phase results all
\* populated or all empty, a score, a grade and a feedback message
WellFormed(r) ==
    /\ r.success \in BOOLEAN
    /\ \/ r.phase_one_result # None /\ r.phase_two_result # None /\ r.phase_three_result # None
       \/ r.phase_one_result = None /\ r.phase_two_result = None /\ r.phase_three_result = None
    /\ InScoreRange(r.final_score)
    /\ r.grade_letter \in {"A", "B", "C", "D", "F"}
    /\ r.feedback_summary # ""

\* C4: for a request without a blank text and with a supported diagram type,
\* process_diagram never raises: whatever the outcome of each generation
\* round-trip (a text, a transport failure, a malformed response), it returns
\* exactly one complete PipelineResult.
C4_AlwaysOneWellFormedResult ==
    (pc # "idle" /\ ~BlankRequest) =>
        /\ ~raised
        /\ (pc = "done") = (pipeline_result # None)
        /\ (pc = "done" => WellFormed(pipeline_result))

\* a finished run in which Phase 1 passed validation issues on and a
\* generation round-trip of Phase 3 failed
C4_Witness ==
    /\ pc = "done"
    /\ ~BlankRequest
    /\ pipeline_result # None
    /\ phase_one # None
    /\ Len(phase_one.warnings) > 0
    /\ phase_three # None
    /\ ~phase_three.success
    /\ pipeline_result.success

\* C5: every final_score the pipeline produces lies in [0,10]: the Score
\* Calculator's for any metrics, error analysis, strengths and custom weights,
\* the Phase-2 fallback score, and the abort result's.
C5_FinalScoreInRange ==
    scOut # None =>
        /\ InScoreRange(scOut.breakdown.final_score)
        /\ InScoreRange(scOut.fallback)
        /\ InScoreRange(PipelineFailureResult(USE_CASE, <<>>, <<>>, "e").final_score)

\* a breakdown computed with custom weights whose base score exceeds 10 and
\* whose final score is 10
C5_Witness ==
    /\ scOut # None
    /\ scIn.custom_weights # {}
    /\ RLt(R(10, 1), scOut.breakdown.base_score)
    /\ scOut.breakdown.final_score = R(10, 1)

\* C7: a request with a blank student text, teacher text or problem text
\* fails before any phase runs: Phase 1 is not started and no generation
\* round-trip is made.
C7_BlankRequestStartsNoPhase ==
    (pc # "idle" /\ BlankRequest) =>
        /\ pc \in {"request", "rejected"}
        /\ calls.phase_one = 0
        /\ calls.phase_three = 0

\* C13: normalize_conventions never propagates a step failure: when every
\* attempt of the chain fails at a step, it returns a result with success
\* false, the original student text as normalized text and final_confidence 0.
C13_ExhaustedRetriesReturnFailure ==
    (PhaseOneExhausted /\ chain_returns = 0) =>
        /\ phase_one # None
        /\ ~phase_one.success
        /\ phase_one.normalized_plantuml = request.student_plantuml
        /\ phase_one.final_confidence = Zero

\* C16: if an attempt fails and a later attempt completes all four steps,
\* normalize_conventions returns success true with retries_used equal to the
\* number of attempts that failed before the completed one.
C16_CompletedLaterAttemptSucceeds ==
    (pc # "idle" /\ chain_returns >= 1 /\ retries_used >= 1) =>
        /\ phase_one # None
        /\ phase_one.success
        /\ phase_one.retries_used = attempt
        /\ phase_one.retries_used >= 1

\* C17: the chain is executed at most max_retries + 1 times, and once an
\* execution of the chain completed its four steps no further attempt is
\* started.
C17_NoAttemptAfterCompletedChain ==
    pc # "idle" =>
        /\ attempt <= config.max_retries
        /\ chain_returns <= 1
        /\ (chain_returns >= 1 => pc # "phase1")

\* C18: within an attempt the steps are invoked in the order of the chain,
\* each after the previous one returned; after a step fails, the next
\* generation call of Phase 1 is step 1 of a fresh attempt and the results of
\* the failed attempt are dropped.
C18_StepsInOrderRestartFromFirst ==
    [][/\ (pc = "request" /\ pc' = "phase1") =>
              (step_index' = 1 /\ attempt' = 0 /\ chain_results' = None)
       /\ (pc = "phase1" /\ calls'.phase_one = calls.phase_one + 1) =>
              /\ step_index \in 1..Len(ChainSteps)
              /\ IF retries_used' = retries_used
                 THEN \/ /\ step_index < Len(ChainSteps)
                         /\ pc' = "phase1"
                         /\ step_index' = step_index + 1
                         /\ attempt' = attempt
                      \/ /\ step_index = Len(ChainSteps)
                         /\ pc' # "phase1"
                 ELSE pc' = "phase1" =>
                          /\ step_index' = 1
                          /\ attempt' = attempt + 1
                          /\ chain_results' = None]_vars

\* a second attempt about to make its third call, after a first attempt that
\* had failed at its last step
C18_Witness ==
    /\ pc = "phase1"
    /\ attempt = 1
    /\ step_index = 3
    /\ calls.phase_one = Len(ChainSteps) + 2
    /\ chain_returns = 0

(***************************************************************************)
(* SpecGateway: GeminiLLMService's detailed_logs under the grading          *)
(* invocations of one ThreePhasePipeline.  The pipeline builds one          *)
(* GeminiLLMService and hands it to both orchestrators, so every            *)
(* process_diagram call on the pipeline works on the same list.  The        *)
(* invocations are coroutines of one event loop: a step of the model runs   *)
(* from one suspension point (the await of generate_content_async, or a     *)
(* rate-limit sleep between two calls) to the next.  The timestamp and the  *)
(* processing_time of a log entry are left out.                             *)
(***************************************************************************)
\* largest number of generation calls one run of an invocation makes
MaxGenCalls == 2
\* largest number of times an invocation is started on the pipeline
MaxRuns == 1

GatewayModel == "gemini-2.5-flash-lite"

GatewayTemperature == R(1, 10)

\* the response texts and the str(e) of the errors of generate_content_async
ResponseTexts == {StrLogin}

ErrorMessages == {"transport"}

\* the prompt of an invocation's calls carries that invocation's request
PromptOf(i) == IF i = 1 THEN StrUser ELSE StrOwner

\* the step label of an invocation's k-th call
StepNameOf(k) == IF k <= Len(ChainSteps) THEN ChainSteps[k] ELSE "AI Generation"

\* the outcomes of the await of generate_content_async
GatewayOutcomes ==
    [raised : {FALSE}, text : ResponseTexts, message : {""}]
        \cup [raised : {TRUE}, text : {<<>>}, message : ErrorMessages]

LogEntry(step_name, prompt, text) ==
    [step_name |-> step_name, prompt |-> prompt, response |-> text,
     model |-> GatewayModel, temperature |-> GatewayTemperature]

ErrorLogEntry(step_name, prompt, message) ==
    [step_name |-> step_name, prompt |-> prompt, response |-> None,
     error |-> message, model |-> GatewayModel]

\* the entry generate_response stores for an outcome
EntryOf(step_name, prompt, outcome) ==
    IF outcome.raised THEN ErrorLogEntry(step_name, prompt, outcome.message)
    ELSE LogEntry(step_name, prompt, outcome.text)

\* a generate_response that stores nothing when the call fails
GenerateResponseLoggingSuccessOnly(logs, step_name, prompt, outcome) ==
    IF outcome.raised THEN logs
    ELSE Append(logs, LogEntry(step_name, prompt, outcome.text))

\* detailed_logs after generate_response got this outcome
GenerateResponse(logs, step_name, prompt, outcome) ==
    Append(logs, EntryOf(step_name, prompt, outcome))

GetDetailedLogs == detailed_logs

GatewayInit ==
    /\ GwIdle
    /\ McIdle
    /\ SmIdle
    /\ ScIdle
    /\ P2Idle
    /\ PlIdle
    /\ LgIdle
    /\ NvIdle
    /\ PrIdle
    /\ ExIdle

GatewayUnchanged == UNCHANGED <<mcVars, smVars, scVars, p2Vars, plVars, lgVars, nvVars, prVars, exVars>>

\* process_diagram is called: clear_logs(), then the code runs on to the await
\* inside the first generate_response
StartInvocation(i) ==
    /\ invPc[i] \in {"idle", "done"}
    /\ invRuns[i] < MaxRuns
    /\ detailed_logs' = <<>>
    /\ gwCalls' = <<>>
    /\ invPc' = [invPc EXCEPT ![i] = "awaiting"]
    /\ invRuns' = [invRuns EXCEPT ![i] = @ + 1]
    /\ invOwn' = [invOwn EXCEPT ![i] = <<>>]
    /\ invRead' = [invRead EXCEPT ![i] = None]
    /\ GatewayUnchanged

\* the await inside generate_response ends: the entry is stored and the text
\* returned or the error re-raised.  After its last call the invocation runs
\* on without suspending until process_diagram has returned and its caller
\* has read get_detailed_logs(); otherwise it suspends in a sleep.
GenerateCompletes(i, outcome, last) ==
    /\ invPc[i] = "awaiting"
    /\ (Len(invOwn[i]) + 1 = MaxGenCalls) => last
    /\ LET step_name == StepNameOf(Len(invOwn[i]) + 1)
           logs == GenerateResponse(detailed_logs, step_name, PromptOf(i), outcome)
       IN  /\ detailed_logs' = logs
           /\ gwCalls' = Append(gwCalls, outcome)
           /\ invOwn' = [invOwn EXCEPT ![i] = Append(@, EntryOf(step_name, PromptOf(i), outcome))]
           /\ IF last
              THEN /\ invPc' = [invPc EXCEPT ![i] = "done"]
                   /\ invRead' = [invRead EXCEPT ![i] = logs]
              ELSE /\ invPc' = [invPc EXCEPT ![i] = "sleeping"]
                   /\ UNCHANGED invRead
    /\ UNCHANGED invRuns
    /\ GatewayUnchanged

\* the sleep ends and the invocation runs on to the await of its next call
NextGenerateCall(i) ==
    /\ invPc[i] = "sleeping"
    /\ invPc' = [invPc EXCEPT ![i] = "awaiting"]
    /\ UNCHANGED <<detailed_logs, gwCalls, invRuns, invOwn, invRead>>
    /\ GatewayUnchanged

GatewayNext ==
    \E i \in Invocations :
        \/ StartInvocation(i)
        \/ \E outcome \in GatewayOutcomes, last \in BOOLEAN : GenerateCompletes(i, outcome, last)
        \/ NextGenerateCall(i)

SpecGateway == GatewayInit /\ [][GatewayNext]_vars

\* C14: every generate_response call, returning or failing, appends exactly
\* one entry: the log holds one entry per generation call completed since the
\* last clear_logs, in call order, and the entry of a failed call records the
\* error and no response (the entry of a returned call the text and no error)
C14_OneLogEntryPerCall ==
    /\ Len(detailed_logs) = Len(gwCalls)
    /\ \A k \in 1..Len(gwCalls) :
           k <= Len(detailed_logs) =>
               IF gwCalls[k].raised
               THEN /\ "error" \in DOMAIN detailed_logs[k]
                    /\ detailed_logs[k].error = gwCalls[k].message
                    /\ detailed_logs[k].response = None
               ELSE /\ "error" \notin DOMAIN detailed_logs[k]
                    /\ detailed_logs[k].response = gwCalls[k].text

C14_Witness ==
    /\ Len(gwCalls) = 2
    /\ gwCalls[1].raised
    /\ ~gwCalls[2].raised
    /\ Len(invOwn[1]) + Len(invOwn[2]) > Len(gwCalls)

\* C15: the log read at the end of an invocation holds exactly the entries of
\* that invocation's own generation calls, whatever other invocations on the
\* same pipeline did meanwhile
C15_ReadLogIsOwnLog ==
    \A i \in Invocations : invPc[i] = "done" => invRead[i] = invOwn[i]

(***************************************************************************)
(* SpecValidator: NormalizationValidator.validate_normalization.  The       *)
(* normalized code is a sequence of lines, each one of the kinds below; the *)
(* generation response is given by the fields the extractors look for:      *)
(* the LOGIC_PRESERVED and CONVENTIONS_MATCHED words ("absent" when the     *)
(* field is not in the text), the CONFIDENCE number, and the severity words *)
(* of the "- type severity description" lines under ISSUES_FOUND.           *)
(*   startuml    @startuml                                                 *)
(*   enduml      @enduml                                                   *)
(*   open_quote  actor "User                                               *)
(*   arrow       User --> Login                                            *)
(*   chain       User --> Login --> Pay                                    *)
(*   blank       (an empty line)                                           *)
(***************************************************************************)
\* largest number of lines of a normalized code
MaxCodeLines == 3
\* largest number of issue lines of a validation response
MaxIssues == 1

CodeLines == {"startuml", "enduml", "open_quote", "arrow", "chain", "blank"}

BooleanWords == {"absent", "true", "false"}

ConfidenceWords == {"absent", "0.9"}

SeverityWords == {"low", "high", "critical"}

RECURSIVE SeqsUpTo(_, _)
SeqsUpTo(S, n) ==
    IF n = 0 THEN {<<>>}
    ELSE LET shorter == SeqsUpTo(S, n - 1)
         IN  shorter \cup {Append(q, x) : q \in shorter, x \in S}

\* the quotation marks and the relationship arrows of a line
QuoteCount(line) == IF line = "open_quote" THEN 1 ELSE 0

ArrowCount(line) == IF line = "arrow" THEN 1 ELSE IF line = "chain" THEN 2 ELSE 0

\* the lines of plantuml_code.strip(): leading and trailing blank lines go
RECURSIVE StripLines(_)
StripLines(code) ==
    IF code = <<>> THEN <<>>
    ELSE IF Head(code) = "blank" THEN StripLines(Tail(code))
    ELSE IF code[Len(code)] = "blank" THEN StripLines(SubSeq(code, 1, Len(code) - 1))
    ELSE code

RECURSIVE TotalQuotes(_)
TotalQuotes(code) == IF code = <<>> THEN 0 ELSE QuoteCount(Head(code)) + TotalQuotes(Tail(code))

ValidationIssue(issue_type, severity, location) ==
    [issue_type |-> issue_type, severity |-> severity, location |-> location]

RECURSIVE ArrowIssues(_, _)
ArrowIssues(code, i) ==
    IF i > Len(code) THEN <<>>
    ELSE (IF ArrowCount(code[i]) > 1
          THEN <<ValidationIssue("syntax", "medium", <<"line", i>>)>>
          ELSE <<>>) \o ArrowIssues(code, i + 1)

\* NormalizationValidator._validate_syntax
ValidatorValidateSyntax(code) ==
    LET stripped == StripLines(code)
    IN  (IF stripped # <<>> /\ Head(stripped) = "startuml" THEN <<>>
         ELSE <<ValidationIssue("syntax", "high", "beginning")>>)
        \o (IF stripped # <<>> /\ stripped[Len(stripped)] = "enduml" THEN <<>>
            ELSE <<ValidationIssue("syntax", "high", "end")>>)
        \o (IF TotalQuotes(code) % 2 # 0
            THEN <<ValidationIssue("syntax", "medium", "throughout")>>
            ELSE <<>>)
        \o ArrowIssues(code, 1)

\* NormalizationValidator._extract_boolean_field
ExtractBooleanField(word) == IF word = "absent" THEN TRUE ELSE word = "true"

\* NormalizationValidator._extract_confidence_field on the response's field
ValidatorExtractConfidence(word) == IF word = "absent" THEN R(4, 5) ELSE R(9, 10)

\* NormalizationValidator._extract_issues
ExtractIssues(severities) ==
    [k \in DOMAIN severities |-> ValidationIssue("logic", severities[k], "unknown")]

\* the number of issues of severity high or critical
SevereCount(issues) == Cardinality({k \in DOMAIN issues : issues[k].severity \in {"high", "critical"}})

ValidationResult(is_valid, validated_plantuml, issues, syntax_valid, logic_preserved, conventions_matched, confidence) ==
    [is_valid |-> is_valid, validated_plantuml |-> validated_plantuml, issues |-> issues,
     syntax_valid |-> syntax_valid, logic_preserved |-> logic_preserved,
     conventions_matched |-> conventions_matched, confidence |-> confidence]

\* NormalizationValidator._parse_validation_response
ParseValidationResponse(response, normalized_code) ==
    LET logic_preserved == ExtractBooleanField(response.logic_preserved)
        conventions_matched == ExtractBooleanField(response.conventions_matched)
        issues == ExtractIssues(response.issues)
    IN  ValidationResult(logic_preserved /\ conventions_matched /\ SevereCount(issues) = 0,
                         normalized_code, issues, TRUE, logic_preserved, conventions_matched,
                         ValidatorExtractConfidence(response.confidence))

\* NormalizationValidator.validate_normalization, after the generation call
\* returned this response
ValidatorValidateNormalization(normalized_code, response) ==
    LET syntax_issues == ValidatorValidateSyntax(normalized_code)
        ai_validation == ParseValidationResponse(response, normalized_code)
        all_issues == syntax_issues \o ai_validation.issues
    IN  ValidationResult(SevereCount(all_issues) = 0, normalized_code, all_issues,
                         Len(syntax_issues) = 0, ai_validation.logic_preserved,
                         ai_validation.conventions_matched, ai_validation.confidence)

ValidatorInit ==
    /\ nvIn \in [code : SeqsUpTo(CodeLines, MaxCodeLines),
                 response : [logic_preserved : BooleanWords, conventions_matched : BooleanWords,
                             confidence : ConfidenceWords,
                             issues : SeqsUpTo(SeverityWords, MaxIssues)]]
    /\ nvOut = None
    /\ McIdle
    /\ SmIdle
    /\ ScIdle
    /\ P2Idle
    /\ PlIdle
    /\ LgIdle
    /\ GwIdle
    /\ PrIdle
    /\ ExIdle

ValidateNormalizationCall ==
    /\ nvOut = None
    /\ nvOut' = ValidatorValidateNormalization(nvIn.code, nvIn.response)
    /\ UNCHANGED <<mcVars, smVars, scVars, p2Vars, plVars, lgVars, gwVars, prVars, exVars, nvIn>>

SpecValidator == ValidatorInit /\ [][ValidateNormalizationCall]_vars

\* C19: the returned ValidationResult has is_valid = true exactly when
\* syntax_valid, logic_preserved and conventions_matched are all true and no
\* issue has severity high or critical
C19_ValidIffAllChecksPass ==
    nvOut # None =>
        (nvOut.is_valid <=>
            /\ nvOut.syntax_valid
            /\ nvOut.logic_preserved
            /\ nvOut.conventions_matched
            /\ SevereCount(nvOut.issues) = 0)

(***************************************************************************)
(* SpecParsers: the response parsers of the six generation-backed steps.    *)
(* A response is given by what the parser finds in it: no brace-delimited   *)
(* block, a block json.loads rejects, or a block that decodes to an object  *)
(* whose list field (naming_conventions, differences, error_categories,     *)
(* feedback_items) is absent, null, or a list of entries; an entry is an    *)
(* object with every required field, an object lacking one, or a string.    *)
(* The parsers of code normalization and validation look for labelled       *)
(* fields with regular expressions and decode nothing.                      *)
(***************************************************************************)
\* largest number of entries of the list field of a decoded response
MaxEntries == 1

ParserSteps ==
    {"convention_analysis", "difference_detection", "code_normalization", "validation",
     "error_analysis", "feedback_generation"}

ResponseBlocks == {"none", "broken", "object"}

EntryKinds == {"object", "object_missing_field", "string"}

ListValues ==
    {[kind |-> "absent", entries |-> <<>>], [kind |-> "null", entries |-> <<>>]}
        \cup [kind : {"list"}, entries : SeqsUpTo(EntryKinds, MaxEntries)]

\* the exception classes involved and their base classes
ExceptionBases(cls) ==
    CASE cls = "JSONDecodeError" -> {"JSONDecodeError", "ValueError", "Exception"}
      [] cls = "ValidationError" -> {"ValidationError", "ValueError", "Exception"}
      [] cls = "ValueError" -> {"ValueError", "Exception"}
      [] cls = "TypeError" -> {"TypeError", "Exception"}
      [] OTHER -> {cls, "Exception"}

\* the except clause of a step's parser
CaughtBy(step_name) ==
    IF step_name \in JsonSteps THEN {"JSONDecodeError", "KeyError", "ValueError"}
    ELSE {"Exception"}

\* Model(**entry) for an entry of the decoded list
BuildEntry(entry) ==
    CASE entry = "object" -> "none"
      [] entry = "object_missing_field" -> "ValidationError"
      [] entry = "string" -> "TypeError"

RECURSIVE BuildEntries(_)
BuildEntries(entries) ==
    IF entries = <<>> THEN "none"
    ELSE IF BuildEntry(Head(entries)) # "none" THEN BuildEntry(Head(entries))
    ELSE BuildEntries(Tail(entries))

\* the exception the try block of a JSON-decoding parser ends with ("none"
\* when it reaches its return)
JsonParseAttempt(response) ==
    CASE response.block = "none" -> "ValueError"
      [] response.block = "broken" -> "JSONDecodeError"
      [] response.block = "object" ->
            IF response.list.kind = "absent" THEN "none"
            ELSE IF response.list.kind = "null" THEN "TypeError"
            ELSE BuildEntries(response.list.entries)

\* the try block of the regular-expression parsers
FieldParseAttempt(response) == "none"

\* _parse_convention_analysis, _parse_difference_detection,
\* _parse_normalization_result, _parse_validation_response,
\* _parse_error_analysis and _parse_feedback_response
ParseResponse(step_name, response) ==
    LET exc == IF step_name \in JsonSteps THEN JsonParseAttempt(response)
               ELSE FieldParseAttempt(response)
    IN  IF exc = "none" THEN [returned |-> "structured", raised |-> "none"]
        ELSE IF ExceptionBases(exc) \cap CaughtBy(step_name) # {}
        THEN [returned |-> "fallback", raised |-> "none"]
        ELSE [returned |-> "nothing", raised |-> exc]

ParsersInit ==
    /\ prIn \in [step_name : ParserSteps, response : [block : ResponseBlocks, list : ListValues]]
    /\ prOut = None
    /\ McIdle
    /\ SmIdle
    /\ ScIdle
    /\ P2Idle
    /\ PlIdle
    /\ LgIdle
    /\ GwIdle
    /\ NvIdle
    /\ ExIdle

ParseResponseCall ==
    /\ prOut = None
    /\ prOut' = ParseResponse(prIn.step_name, prIn.response)
    /\ UNCHANGED <<mcVars, smVars, scVars, p2Vars, plVars, lgVars, gwVars, nvVars, exVars, prIn>>

SpecParsers == ParsersInit /\ [][ParseResponseCall]_vars

\* C20: for every response text, well-formed, lacking the structured block,
\* syntactically broken, or decodable but of the wrong shape, the parser of
\* each generation-backed step returns a result and never raises
C20_ParsersNeverRaise ==
    prOut # None => (prOut.raised = "none" /\ prOut.returned \in {"structured", "fallback"})

(***************************************************************************)
(* The score formula of ScoreCalculator, written out from its statement and *)
(* compared with what calculate_final_score returns (SpecScore)             *)
(***************************************************************************)
\* the multiplier of a severity word (1.0 for a word that is none of the four)
StatedMultiplier(severity) ==
    CASE severity = "critical" -> R(2, 1)
      [] severity = "high" -> R(3, 2)
      [] severity = "medium" -> One
      [] severity = "low" -> R(1, 2)
      [] OTHER -> One

RECURSIVE StatedSeveritySum(_)
StatedSeveritySum(items) ==
    IF items = {} THEN Zero
    ELSE LET it == CHOOSE x \in items : TRUE
         IN  RAdd(RMul(RMul(R(it[2], 1), StatedMultiplier(it[1])), R(1, 10)),
                  StatedSeveritySum(items \ {it}))

StatedPenaltySum ==
    LET ea == scIn.error_analysis
    IN  RAdd(RAdd(RMin(R(2, 1), R(2 * ea.total_errors, 10)),
                  RMin(R(3, 1), StatedSeveritySum(ea.severity_breakdown))),
             RAdd(IF RLt(ea.confidence, R(7, 10)) THEN R(1, 2) ELSE Zero,
                  IF \E cat \in ea.error_categories :
                         cat.category = "missing_components" /\ cat.severity \in {"high", "critical"}
                  THEN One ELSE Zero))

StatedBonusSum ==
    LET ms == ScoreMetrics
        perfect == Cardinality({k \in DOMAIN ms.component_metrics :
                                    ms.component_metrics[k].f1_score = One})
    IN  RAdd(RAdd(IF RLt(R(9, 10), ms.similarity_score) THEN R(1, 2)
                  ELSE IF RLt(R(8, 10), ms.similarity_score) THEN R(3, 10) ELSE Zero,
                  IF Len(scIn.feedback_result.strengths) >= 2 THEN R(3, 10) ELSE Zero),
             RAdd(R(2 * perfect, 10),
                  IF RLt(R(95, 100), ms.overall_metrics.precision) THEN R(3, 10) ELSE Zero))

StatedBaseScore ==
    LET o == ScoreMetrics.overall_metrics
    IN  RMul(R(10, 1),
             RAdd(RAdd(RMul(R(1, 4), o.precision), RMul(R(1, 4), o.recall)),
                  RAdd(RMul(R(7, 20), o.f1_score), RMul(R(3, 20), o.accuracy))))

StatedFinalScore ==
    RMax(Zero, RMin(R(10, 1), RAdd(RSub(StatedBaseScore, StatedPenaltySum), StatedBonusSum)))

\* C21 (as stated): under default weights the returned final_score is
\* clamp(base - penalties + bonuses, 0, 10) with the base, the four penalties
\* and the four bonuses as the statement gives them
C21_FinalScoreAsStated ==
    (scOut # None /\ scIn.custom_weights = {}) =>
        scOut.breakdown.final_score = StatedFinalScore

\* C21 (amended): under default weights the returned final_score is that
\* clamped value rounded to two decimals
C21_FinalScoreRoundedAsStated ==
    (scOut # None /\ scIn.custom_weights = {}) =>
        scOut.breakdown.final_score = Round2(StatedFinalScore)

C21_Witness ==
    /\ scOut # None
    /\ scIn.custom_weights = {}
    /\ Round2(StatedFinalScore) # StatedFinalScore
    /\ RLt(R(3, 1), StatedSeveritySum(scIn.error_analysis.severity_breakdown))
    /\ RLt(Zero, StatedBonusSum)
    /\ RLt(Zero, StatedFinalScore)

(***************************************************************************)
(* The greedy matching of MetricsEngine (SpecMatch)                         *)
(***************************************************************************)
Smaller(a, b) == IF a < b THEN a ELSE b

\* the pairs are at or above the threshold and share no item
OneToOnePairs(pairs) ==
    /\ \A q \in pairs : RLe(SimilarityThreshold, CalculateSimilarity(q[1], q[2]))
    /\ \A q, r \in pairs : (q[1] = r[1] \/ q[2] = r[2]) => q = r

\* C22: the matching is one-to-one with every pair at or above the threshold;
\* the expected item visited in a step is paired with a still-unused actual
\* item that no other unused item exceeds in similarity (and is left unpaired
\* only when no unused item reaches the threshold); the counts derived are
\* 0 <= tp <= min(|expected|, |actual|), fp = |actual| - tp, fn = |expected| - tp
C22_GreedyOneToOne ==
    [][/\ OneToOnePairs(matched_pairs')
       /\ (smIdx' = smIdx + 1) =>
              LET exp_item == smExpected[smIdx]
                  unused == SetOf(smActual) \ used_actual
                  added == matched_pairs' \ matched_pairs
              IN  /\ Cardinality(added) <= 1
                  /\ \A q \in added :
                         LET best_similarity == CalculateSimilarity(exp_item, q[2])
                         IN  /\ q[1] = exp_item
                             /\ q[2] \in unused
                             /\ used_actual' = used_actual \cup {q[2]}
                             /\ RLe(SimilarityThreshold, best_similarity)
                             /\ \A act_item \in unused \ {q[2]} :
                                    RLe(CalculateSimilarity(exp_item, act_item),
                                        best_similarity)
                  /\ added = {} =>
                         \A act_item \in unused :
                             RLt(CalculateSimilarity(exp_item, act_item), SimilarityThreshold)
       /\ (smOut' # None) =>
              LET tp == smOut'.engine.true_positives
              IN  /\ tp = Cardinality(matched_pairs')
                  /\ 0 <= tp
                  /\ tp <= Smaller(Len(smExpected), Len(smActual))
                  /\ smOut'.engine.false_positives = Len(smActual) - tp
                  /\ smOut'.engine.false_negatives = Len(smExpected) - tp]_vars

\* a finished matching with two pairs in which an expected item had two unused
\* candidates at or above the threshold and took the later, more similar one
C22_Witness ==
    /\ smOut # None
    /\ Cardinality(matched_pairs) = 2
    /\ Len(smActual) = 3
    /\ \E q \in matched_pairs : \E i, j \in 1..Len(smActual) :
           /\ i < j
           /\ smActual[j] = q[2]
           /\ \A r \in matched_pairs : r[2] # smActual[i]
           /\ RLe(SimilarityThreshold, CalculateSimilarity(q[1], smActual[i]))
           /\ RLt(CalculateSimilarity(q[1], smActual[i]), CalculateSimilarity(q[1], q[2]))


(***************************************************************************)
(* SpecConfidence: the confidences of one grading run, from the confidence *)
(* field of each step's generation response to the overall confidence      *)
(***************************************************************************)
\* the steps that read a confidence out of a generation response, in the
\* order a run makes them
ConfidenceSteps ==
    <<"convention_analysis", "difference_detection", "code_normalization",
      "validation", "error_analysis", "feedback_generation">>

\* what a response can hold where the confidence is expected: nothing, a
\* word, or a numeral with or without a minus sign
ConfidenceFields ==
    {[kind |-> "absent", negative |-> FALSE, magnitude |-> Zero],
     [kind |-> "word", negative |-> FALSE, magnitude |-> Zero],
     [kind |-> "number", negative |-> FALSE, magnitude |-> R(9, 10)],
     [kind |-> "number", negative |-> FALSE, magnitude |-> R(95, 1)],
     [kind |-> "number", negative |-> TRUE, magnitude |-> R(1, 2)]}

\* the pattern CONFIDENCE:\s*([0-9]*\.?[0-9]+) of both text parsers: it finds
\* an unsigned numeral only, and float() of the numeral is its value
ConfidencePatternMatch(field) ==
    IF field.kind = "number" /\ ~field.negative THEN field.magnitude ELSE None

\* CodeNormalizer._extract_confidence
NormalizerExtractConfidence(field) ==
    IF ConfidencePatternMatch(field) # None THEN ConfidencePatternMatch(field)
    ELSE R(7, 10)

\* NormalizationValidator._extract_confidence_field
ValidatorExtractConfidenceField(field) ==
    IF ConfidencePatternMatch(field) # None THEN ConfidencePatternMatch(field)
    ELSE R(4, 5)

\* the confidence of a result built from a decoded JSON object with
\* data.get(key, missing): the default for a missing key, the number as it
\* stands, and for a value that is no number the fallback result's confidence
\* (the model's float field rejects it with a ValueError, which is caught)
JsonConfidence(field, missing, fallback) ==
    IF field.kind = "absent" THEN missing
    ELSE IF field.kind = "word" THEN fallback
    ELSE IF field.negative THEN RSub(Zero, field.magnitude)
    ELSE field.magnitude

\* the confidence of a step's result, by the step's parser
StepConfidence(step, field) ==
    CASE step = "convention_analysis" -> JsonConfidence(field, R(1, 2), R(1, 2))
      [] step = "difference_detection" -> JsonConfidence(field, R(1, 2), R(1, 2))
      [] step = "code_normalization" -> NormalizerExtractConfidence(field)
      [] step = "validation" -> ValidatorExtractConfidenceField(field)
      [] step = "error_analysis" -> JsonConfidence(field, R(1, 2), R(3, 10))
      [] step = "feedback_generation" -> JsonConfidence(field, R(7, 10), R(1, 2))

ConfidenceInit ==
    /\ cfPc = "steps"
    /\ cfIn \in [fields : [DOMAIN ConfidenceSteps -> ConfidenceFields],
                 phase_two_success : BOOLEAN]
    /\ cfOut = [steps |-> <<>>, phase_three |-> None, overall |-> None]
    /\ McIdle
    /\ SmIdle
    /\ ScIdle
    /\ P2Idle
    /\ PlIdle
    /\ LgIdle
    /\ GwIdle
    /\ NvIdle
    /\ PrIdle
    /\ MpIdle

ConfidenceUnchanged ==
    UNCHANGED <<mcVars, smVars, scVars, p2Vars, plVars, lgVars, gwVars, nvVars, prVars, mpVars, cfIn>>

\* the next step's parser reads its response
ParseStepConfidence ==
    /\ cfPc = "steps"
    /\ LET i == Len(cfOut.steps) + 1
       IN  /\ cfOut' = [cfOut EXCEPT
                          !.steps = Append(@, StepConfidence(ConfidenceSteps[i], cfIn.fields[i]))]
           /\ cfPc' = IF i = Len(ConfidenceSteps) THEN "phase_three" ELSE "steps"
    /\ ConfidenceUnchanged

\* PhaseThreeOrchestrator.generate_feedback_and_score, line 110
PhaseThreeConfidence ==
    /\ cfPc = "phase_three"
    /\ cfOut' = [cfOut EXCEPT !.phase_three = RMin(cfOut.steps[5], cfOut.steps[6])]
    /\ cfPc' = "overall"
    /\ ConfidenceUnchanged

\* process_diagram's call of _calculate_overall_confidence on the three
\* phase results
OverallConfidence ==
    /\ cfPc = "overall"
    /\ cfOut' = [cfOut EXCEPT
                   !.overall = CalculateOverallConfidence(
                                   [final_confidence |-> cfOut.steps[4]],
                                   [success |-> cfIn.phase_two_success],
                                   [confidence |-> cfOut.phase_three])]
    /\ cfPc' = "done"
    /\ ConfidenceUnchanged

ConfidenceNext == ParseStepConfidence \/ PhaseThreeConfidence \/ OverallConfidence

SpecConfidence == ConfidenceInit /\ [][ConfidenceNext]_vars

\* C23: every confidence of a step result, the Phase 3 confidence and the
\* overall confidence lie in [0,1], whatever the responses contain
C23_ConfidencesInUnitInterval ==
    cfPc # "idle" =>
        /\ \A i \in DOMAIN cfOut.steps : InUnitInterval(cfOut.steps[i])
        /\ cfOut.phase_three # None => InUnitInterval(cfOut.phase_three)
        /\ cfOut.overall # None => InUnitInterval(cfOut.overall)


(***************************************************************************)
(* The overall confidence of a completed run (Spec)                        *)
(***************************************************************************)
\* the confidences the phases of the run supplied: Phase 1's final confidence
\* when positive, 0.9 for a successful Phase 2, Phase 3's when positive
SuppliedConfidences ==
    (IF RLt(Zero, phase_one.final_confidence) THEN <<phase_one.final_confidence>> ELSE <<>>)
    \o (IF phase_two.success THEN <<R(9, 10)>> ELSE <<>>)
    \o (IF RLt(Zero, phase_three.confidence) THEN <<phase_three.confidence>> ELSE <<>>)

RECURSIVE RSum(_)
RSum(cs) == IF cs = <<>> THEN Zero ELSE RAdd(Head(cs), RSum(Tail(cs)))

\* C24: in a run that reaches DONE, overall_confidence is the arithmetic mean
\* of the confidences of the phases that supplied one: Phase 1's final
\* confidence when positive, 0.9 for a successful Phase 2, Phase 3's
\* confidence when positive
C24_OverallConfidenceIsMeanOfPhases ==
    (pc = "done" /\ phase_three # None) =>
        pipeline_result.overall_confidence =
            RDiv(RSum(SuppliedConfidences), R(Len(SuppliedConfidences), 1))


(***************************************************************************)
(* The delay between the generation round-trips of a phase (Spec)          *)
(***************************************************************************)
\* C25: within Phase 1 and within Phase 3, a generation round-trip that
\* follows another one of the same phase starts only after the rate-limit
\* delay (once, or twice before a retry)
C25_DelayBetweenCallsOfAPhase ==
    /\ (pc = "phase1" /\ calls.phase_one > 0) => slept >= 1
    /\ (pc = "phase3_feedback" /\ calls.phase_three > 0) => slept >= 1


(***************************************************************************)
(* SpecMultiPrompt: GeminiLLMService.multi_prompt_chain on a list of       *)
(* prompts, one action per suspension of the coroutine                     *)
(***************************************************************************)
MaxPrompts == 3

PromptTexts == {"prompt a", "prompt b"}

ChainResponses == {"response x", "response y"}

\* the key previous_step_{k} of the accumulated context
PreviousStepKey(k) == <<"previous_step", k>>

\* the context dictionaries the caller can pass: none, or one that already
\* holds the key of the first step
ChainContexts == {{}, {<<PreviousStepKey(0), "given">>}}

\* accumulated_context[key] = value
DictSet(dict, key, value) == {pair \in dict : pair[1] # key} \cup {<<key, value>>}

\* the context of iteration i (counted from 0): the previous response is
\* stored under the previous step's key once there is one
AccumulatedContext(context, results, i) ==
    IF results # <<>> THEN DictSet(context, PreviousStepKey(i - 1), results[Len(results)])
    ELSE context

\* the prompt handed to generate_response: the context lines and the prompt,
\* or the prompt alone under an empty context
EnhancedPrompt(context, prompt) == [context |-> context, prompt |-> prompt]

\* the coroutine is suspended in generate_response
ChainAwaiting == mpTrace # <<>> /\ mpTrace[Len(mpTrace)].event = "send"

MultiPromptInit ==
    /\ mpPrompts \in UNION {[1..n -> PromptTexts] : n \in 0..MaxPrompts}
    /\ mpContext \in ChainContexts
    /\ mpIndex = 0
    /\ mpResults = <<>>
    /\ mpTrace = <<>>
    /\ mpOut = None
    /\ McIdle
    /\ SmIdle
    /\ ScIdle
    /\ P2Idle
    /\ PlIdle
    /\ LgIdle
    /\ GwIdle
    /\ NvIdle
    /\ PrIdle
    /\ CfIdle

MultiPromptUnchanged ==
    UNCHANGED <<mcVars, smVars, scVars, p2Vars, plVars, lgVars, gwVars, nvVars, prVars, cfVars, mpPrompts>>

\* the loop body up to the await: the context, the enhanced prompt, the call
ChainSend ==
    /\ mpOut = None
    /\ ~ChainAwaiting
    /\ mpIndex < Len(mpPrompts)
    /\ mpContext' = AccumulatedContext(mpContext, mpResults, mpIndex)
    /\ mpTrace' = Append(mpTrace, [event |-> "send",
                                   prompt |-> EnhancedPrompt(mpContext', mpPrompts[mpIndex + 1])])
    /\ UNCHANGED <<mpIndex, mpResults, mpOut>>
    /\ MultiPromptUnchanged

\* a variant that logs a failed step and goes on with the next prompt
ChainReceiveSkippingFailure ==
    /\ mpOut = None
    /\ ChainAwaiting
    /\ \/ \E response \in ChainResponses :
            /\ mpResults' = Append(mpResults, response)
            /\ mpTrace' = mpTrace \o <<[event |-> "response", text |-> response]>>
                          \o (IF mpIndex < Len(mpPrompts) - 1
                              THEN <<[event |-> "sleep", seconds |-> 4]>> ELSE <<>>)
            /\ mpIndex' = mpIndex + 1
            /\ UNCHANGED mpOut
       \/ /\ mpTrace' = Append(mpTrace, [event |-> "failed", step |-> mpIndex + 1])
          /\ mpIndex' = mpIndex + 1
          /\ UNCHANGED <<mpResults, mpOut>>
    /\ UNCHANGED mpContext
    /\ MultiPromptUnchanged

\* generate_response returns or raises: the response is appended and, unless
\* it was the last prompt's, four seconds are slept; a failure is raised again
ChainReceive ==
    /\ mpOut = None
    /\ ChainAwaiting
    /\ \/ \E response \in ChainResponses :
            /\ mpResults' = Append(mpResults, response)
            /\ mpTrace' = mpTrace \o <<[event |-> "response", text |-> response]>>
                          \o (IF mpIndex < Len(mpPrompts) - 1
                              THEN <<[event |-> "sleep", seconds |-> 4]>> ELSE <<>>)
            /\ mpIndex' = mpIndex + 1
            /\ UNCHANGED mpOut
       \/ /\ mpTrace' = Append(mpTrace, [event |-> "failed", step |-> mpIndex + 1])
          /\ mpOut' = [raised |-> "generation failed"]
          /\ UNCHANGED <<mpResults, mpIndex>>
    /\ UNCHANGED mpContext
    /\ MultiPromptUnchanged

\* the loop ended: return results
ChainReturn ==
    /\ mpOut = None
    /\ ~ChainAwaiting
    /\ mpIndex = Len(mpPrompts)
    /\ mpOut' = [returned |-> mpResults]
    /\ UNCHANGED <<mpIndex, mpResults, mpContext, mpTrace>>
    /\ MultiPromptUnchanged

MultiPromptNext == ChainSend \/ ChainReceive \/ ChainReturn

SpecMultiPrompt == MultiPromptInit /\ [][MultiPromptNext]_vars

\* the positions of the trace that hold an event of the kind
EventsOf(kind) == {j \in DOMAIN mpTrace : mpTrace[j].event = kind}

\* the position of the k-th event of the kind
NthEvent(kind, k) ==
    CHOOSE j \in EventsOf(kind) : Cardinality({h \in EventsOf(kind) : h <= j}) = k

\* C26: multi_prompt_chain sends the prompts in list order, each only after
\* the previous response arrived and a delay was slept, with no delay after
\* the last response; the first failure ends the chain with an exception and
\* no list of responses; on success it returns one response per prompt, in
\* prompt order
C26_ChainInOrderAllOrNothing ==
    /\ \A k \in 1..Cardinality(EventsOf("send")) :
           /\ k <= Len(mpPrompts)
           /\ mpTrace[NthEvent("send", k)].prompt.prompt = mpPrompts[k]
    /\ \A j \in DOMAIN mpTrace :
           /\ mpTrace[j].event = "send" => (j = 1 \/ mpTrace[j - 1].event = "sleep")
           /\ mpTrace[j].event \in {"response", "failed"} => mpTrace[j - 1].event = "send"
           /\ mpTrace[j].event = "sleep" =>
                  /\ mpTrace[j - 1].event = "response"
                  /\ Cardinality({h \in EventsOf("response") : h < j}) < Len(mpPrompts)
           /\ mpTrace[j].event = "failed" => j = Len(mpTrace)
    /\ (mpOut # None /\ "raised" \in DOMAIN mpOut) =>
           /\ mpTrace[Len(mpTrace)].event = "failed"
           /\ DOMAIN mpOut = {"raised"}
    /\ (mpOut # None /\ "returned" \in DOMAIN mpOut) =>
           /\ EventsOf("failed") = {}
           /\ Len(mpOut.returned) = Len(mpPrompts)
           /\ Cardinality(EventsOf("send")) = Len(mpPrompts)
           /\ Cardinality(EventsOf("sleep")) = IF mpPrompts = <<>> THEN 0 ELSE Len(mpPrompts) - 1
           /\ \A k \in DOMAIN mpOut.returned :
                  /\ NthEvent("response", k) = NthEvent("send", k) + 1
                  /\ mpOut.returned[k] = mpTrace[NthEvent("response", k)].text

C26_Witness ==
    /\ mpOut # None
    /\ "returned" \in DOMAIN mpOut
    /\ Len(mpPrompts) = MaxPrompts
    /\ mpPrompts[1] # mpPrompts[2]
    /\ mpOut.returned[1] # mpOut.returned[2]
    /\ Cardinality(EventsOf("sleep")) = MaxPrompts - 1


(***************************************************************************)
(* The outcome of Phase 1's validation step (Spec)                         *)
(***************************************************************************)
\* the validation step of the chain returns in this step, with issues found
\* in the normalized code
ValidationReturnsIssues ==
    /\ pc = "phase1"
    /\ chain_returns' = chain_returns + 1
    /\ ValidateSyntax(chain_results.normalized_plantuml) # <<>>

\* the attempt counts as completed: no retry, Phase 1 reports success with
\* the validated text and carries the issues in its warnings
AttemptCompletedWithIssues ==
    /\ retries_used' = retries_used
    /\ attempt' = attempt
    /\ pc' = "phase2"
    /\ phase_one' # None
    /\ phase_one'.success
    /\ phase_one'.normalized_plantuml = chain_results.normalized_plantuml
    /\ \A i \in DOMAIN ValidateSyntax(chain_results.normalized_plantuml) :
           \E j \in DOMAIN phase_one'.warnings :
               phase_one'.warnings[j] = ValidateSyntax(chain_results.normalized_plantuml)[i]

\* C27: a validation outcome that is not valid never aborts or retries the
\* chain: the attempt counts as completed, Phase 1 reports success with the
\* validated text, and the validation issues are in the result's warnings
C27_InvalidValidationCompletesAttempt ==
    [][ValidationReturnsIssues => AttemptCompletedWithIssues]_vars


(***************************************************************************)
(* SpecLive: the grading pipeline when every step that can be taken is     *)
(* eventually taken (every generation call returns or fails, every sleep   *)
(* ends)                                                                   *)
(***************************************************************************)
\* the branch of PhaseTwo in which the extraction raises
PhaseTwoFaulted ==
    /\ pc = "phase2"
    /\ \E p2 \in ExtractAndCalculateMetrics(NormalizedCode, request.teacher_plantuml,
                                             request.diagram_type, TRUE) :
           /\ phase_two' = p2
           /\ IF PhaseTwoFailed(p2)
              THEN Aborted(pipeline_warnings \o p2.warnings, pipeline_errors \o p2.errors,
                           "Phase 2 extraction failed - cannot proceed to Phase 3")
              ELSE Continue("phase3_errors", pipeline_warnings \o p2.warnings,
                            pipeline_errors)
    /\ UNCHANGED <<request, config, chainVars, calls, phase_one, phase_three_errors,
                   phase_three, slept, mcVars, smVars, scVars, p2Vars, auxVars>>

\* the branch of PhaseThreeFeedback in which the generation call raises
PhaseThreeFeedbackFailed ==
    /\ pc = "phase3_feedback"
    /\ calls' = [calls EXCEPT !.phase_three = @ + 1]
    /\ phase_three' = PhaseThreeFailure(request.diagram_type)
    /\ Completed(phase_one, phase_two, PhaseThreeFailure(request.diagram_type))
    /\ slept' = 0
    /\ UNCHANGED <<request, config, chainVars, phase_one, phase_two, phase_three_errors,
                   mcVars, smVars, scVars, p2Vars, auxVars>>

\* Next, with the two branches first whose enabledness is decided without
\* computing metrics or scores: as an action it equals Next, since both
\* branches are steps of Next
FairNext == PhaseTwoFaulted \/ PhaseThreeFeedbackFailed \/ Next

\* the requests graded under the default weights
LiveInit == PipelineInit /\ request.custom_weights = {}

\* every generation call returns or fails and every sleep ends, Phase 2 and
\* the score computation finish: a step that can be taken is taken
SpecLive == LiveInit /\ [][Next]_vars /\ WF_vars(FairNext)

\* process_diagram was called and has not returned yet
Running == pc \in {"phase1", "phase2", "phase3_errors", "phase3_feedback"}

\* C28: every process_diagram invocation eventually terminates with a
\* result, having made at most 4 * (max_retries + 1) generation calls in
\* Phase 1, at most 2 in Phase 3 and none in Phase 2
C28_TerminatesWithinCallBounds ==
    /\ Running ~> (pc = "done" /\ pipeline_result # None /\ ~raised)
    /\ [](calls # None =>
              /\ calls.phase_one <= 4 * (config.max_retries + 1)
              /\ calls.phase_three <= 2)
    /\ [][pc = "phase2" => calls' = calls]_vars

C28_Witness ==
    /\ pc = "done"
    /\ pipeline_result # None
    /\ config.max_retries = MaxRetries
    /\ calls.phase_one = 4 * (MaxRetries + 1)


(***************************************************************************)
(* The counts of MetricsEngine under different visiting orders (SpecMatch) *)
(***************************************************************************)
\* the counts of a component's metrics
CountsOf(m) == <<m.true_positives, m.false_positives, m.false_negatives>>

\* C29: the counts computed for two key sets do not depend on the order in
\* which the items of the sets are visited: every visiting order of the same
\* two sets gives the tp, fp and fn of the finished run
C29_CountsIndependentOfOrder ==
    smOut # None =>
        \A eo \in PermsOf(SetOf(smExpected)), ao \in PermsOf(SetOf(smActual)) :
            CountsOf(CalculateComponentMetrics(eo, ao)) = CountsOf(smOut.engine)

C30_FailureResultNeverReturned ==
    (pc # "idle" /\ retries_used = config.max_retries + 1) =>
        (phase_one = None /\ pc = "done")

====
